---- MODULE Spec2Model ----
(***************************************************************************)
(* octopush: named git identity profiles, one bound per repository.        *)
(*                                                                         *)
(* The model follows src/src/core/app.rs (ProfileManager and App),         *)
(* src/src/core/project.rs (Project) and src/src/util/git.rs.              *)
(* An Option<T> is a sequence of length at most one: None is << >> and     *)
(* Some(v) is <<v>>.  A Result is a record [kind, value] whose kind is     *)
(* "Ok" or the std::io::ErrorKind of the error.                            *)
(***************************************************************************)
EXTENDS Naturals, Sequences, FiniteSets, TLC

VARIABLES
    profiles_toml,          \* contents of profiles.toml: id -> TOML table
    project_profiles_toml,  \* contents of project_profiles.toml: repo name -> id
    git_config,             \* repository root -> its local git configuration
    last,                   \* the last call on the store: operation, id, returned Result
    latest,                 \* history: id -> profile of its latest successful add/update
    codec,                  \* the remote URL codec: triple in hand, URL formatted, parse result
    project,                \* project resolution: marker directories, path given, Result
    auth_text,              \* AuthType texts: value given, its text, Result of parsing
    race,                   \* invocations at the same time: operation, position, snapshot, Result; order of steps
    temp,                   \* test threads: ENV_LOCK, XDG_CONFIG_HOME and each thread's TempConfig
    walk                    \* the upward walk of project resolution, one iteration at a time

vars == <<profiles_toml, project_profiles_toml, git_config, last, latest, codec, project,
         auth_text,
         race,
         temp,
         walk>>

(* The variables of the machines of single functions, which the store's   *)
(* and App's operations leave alone, and the variables of the store and    *)
(* App, which those machines leave alone.                                  *)
aux == <<codec, project, auth_text, race, temp, walk>>
app == <<profiles_toml, project_profiles_toml, git_config, last, latest>>

----------------------------------------------------------------------------
(* Bounds of the model and the input domains built from them.              *)

NumIds == 2

IdPool == <<"p1", "p2", "p3", "p4">>
NamePool == <<"alice", "bob", "carol", "dave">>

Ids == {IdPool[i] : i \in 1..NumIds}
Names == {NamePool[i] : i \in 1..NumIds}
Emails == {"a@x.io"}
Hostnames == {"github.com"}
KeyPaths == {"~/.ssh/id_rsa"}

None == << >>
Some(v) == <<v>>
Option(S) == {None} \cup {Some(v) : v \in S}

(* src/src/core/auth.rs: enum AuthType, serialised by its variant name.    *)
AuthType == {"None", "SSH", "GH"}

(* src/src/core/profile.rs: struct Profile.                                *)
Profile ==
    [id : Ids, name : Names, email : Emails, auth_type : AuthType,
     hostname : Option(Hostnames), ssh_key_path : Option(KeyPaths)]

(* The profiles a caller passes under id IdPool[i]: the id field repeats   *)
(* the key (profile.rs: "this field is the same as profile_name") and the  *)
(* i-th id carries the i-th name.                                          *)
Inputs(n) ==
    {p \in Profile : p.id = n /\ \E i \in 1..NumIds : n = IdPool[i] /\ p.name = NamePool[i]}

(* Every profile a caller may pass, under its own id or under another.    *)
Passed == UNION {Inputs(n) : n \in Ids}

Ok(v) == [kind |-> "Ok", value |-> v]
Err(k) == [kind |-> k, value |-> None]
Unit == << >>

----------------------------------------------------------------------------
(* Persistence: serde/toml encoding of a profile.  The two optional fields *)
(* carry skip_serializing_if = "Option::is_none": an absent field has no   *)
(* key in the table, and a missing key deserialises to None.               *)

to_toml(p) ==
    LET keys == {"id", "name", "email", "auth_type"}
                \cup (IF p.hostname # None THEN {"hostname"} ELSE {})
                \cup (IF p.ssh_key_path # None THEN {"ssh_key_path"} ELSE {})
    IN [k \in keys |->
          CASE k = "id" -> p.id
            [] k = "name" -> p.name
            [] k = "email" -> p.email
            [] k = "auth_type" -> p.auth_type
            [] k = "hostname" -> p.hostname[1]
            [] k = "ssh_key_path" -> p.ssh_key_path[1]]

from_toml(t) ==
    [id |-> t["id"], name |-> t["name"], email |-> t["email"],
     auth_type |-> t["auth_type"],
     hostname |-> IF "hostname" \in DOMAIN t THEN Some(t["hostname"]) ELSE None,
     ssh_key_path |-> IF "ssh_key_path" \in DOMAIN t
                      THEN Some(t["ssh_key_path"]) ELSE None]

(* read_profiles: a missing or blank file is the empty map.                *)
read_profiles(file) == [n \in DOMAIN file |-> from_toml(file[n])]

(* write_profiles: the whole document is rewritten (truncate + write).     *)
write_profiles(profiles) == [n \in DOMAIN profiles |-> to_toml(profiles[n])]

(* HashMap::insert and HashMap::remove.                                    *)
insert(m, k, v) == [x \in DOMAIN m \cup {k} |-> IF x = k THEN v ELSE m[x]]
remove(m, k) == [x \in DOMAIN m \ {k} |-> m[x]]
get(m, k) == IF k \in DOMAIN m THEN Some(m[k]) ELSE None

(* read_profile: Ok(None) on absence, never an error.                      *)
read_profile(file, profile_name) == Ok(get(read_profiles(file), profile_name))

----------------------------------------------------------------------------
(* ProfileManager::add_profile / update_profile / delete_profile.          *)
(* Each returns the Result and the file contents it leaves behind.         *)

(* Faulty variants of add_profile: one writes the new entry alone, one     *)
(* overwrites a duplicate while reporting AlreadyExists.                   *)
add_profile_truncates(file, profile_name, profile) ==
    IF profile_name \in DOMAIN read_profiles(file)
    THEN [res |-> Err("AlreadyExists"), file |-> file]
    ELSE [res |-> Ok(Unit),
          file |-> write_profiles(insert(<< >>, profile_name, profile))]

add_profile_overwrites(file, profile_name, profile) ==
    [res |-> IF profile_name \in DOMAIN read_profiles(file)
             THEN Err("AlreadyExists") ELSE Ok(Unit),
     file |-> write_profiles(insert(read_profiles(file), profile_name, profile))]

add_profile(file, profile_name, profile) ==
    LET profiles == read_profiles(file)
    IN IF profile_name \in DOMAIN profiles
       THEN [res |-> Err("AlreadyExists"), file |-> file]
       ELSE [res |-> Ok(Unit),
             file |-> write_profiles(insert(profiles, profile_name, profile))]

(* The field check of update_profile, on the auth_type stored under the id. *)
update_rejected(stored, profile) ==
    CASE stored.auth_type = "None" ->
            profile.hostname # None \/ profile.ssh_key_path # None
      [] stored.auth_type = "SSH" -> profile.hostname # None
      [] stored.auth_type = "GH" -> profile.ssh_key_path # None

(* Faulty variants of update_profile: one checks the fields against the    *)
(* incoming auth_type, one keeps the stored auth_type, one inserts under   *)
(* an absent id.                                                           *)
update_profile_checks_incoming(file, profile_name, profile) ==
    LET profiles == read_profiles(file)
    IN IF profile_name \notin DOMAIN profiles
       THEN [res |-> Err("NotFound"), file |-> file]
       ELSE IF update_rejected(profile, profile)
       THEN [res |-> Err("InvalidData"), file |-> file]
       ELSE [res |-> Ok(Unit),
             file |-> write_profiles(insert(profiles, profile_name, profile))]

update_profile_keeps_auth(file, profile_name, profile) ==
    LET profiles == read_profiles(file)
    IN IF profile_name \notin DOMAIN profiles
       THEN [res |-> Err("NotFound"), file |-> file]
       ELSE IF update_rejected(profiles[profile_name], profile)
       THEN [res |-> Err("InvalidData"), file |-> file]
       ELSE [res |-> Ok(Unit),
             file |-> write_profiles(insert(profiles, profile_name,
                        [profile EXCEPT
                           !.auth_type = profiles[profile_name].auth_type]))]

update_profile_upserts(file, profile_name, profile) ==
    LET profiles == read_profiles(file)
    IN IF profile_name \notin DOMAIN profiles
       THEN [res |-> Err("NotFound"),
             file |-> write_profiles(insert(profiles, profile_name, profile))]
       ELSE IF update_rejected(profiles[profile_name], profile)
       THEN [res |-> Err("InvalidData"), file |-> file]
       ELSE [res |-> Ok(Unit),
             file |-> write_profiles(insert(profiles, profile_name, profile))]

update_profile(file, profile_name, profile) ==
    LET profiles == read_profiles(file)
    IN IF profile_name \notin DOMAIN profiles
       THEN [res |-> Err("NotFound"), file |-> file]
       ELSE IF update_rejected(profiles[profile_name], profile)
       THEN [res |-> Err("InvalidData"), file |-> file]
       ELSE [res |-> Ok(Unit),
             file |-> write_profiles(insert(profiles, profile_name, profile))]

(* A faulty variant of delete_profile that empties the store.              *)
delete_profile_clears(file, profile_name) ==
    IF profile_name \notin DOMAIN read_profiles(file)
    THEN [res |-> Err("NotFound"), file |-> file]
    ELSE [res |-> Ok(Unit), file |-> write_profiles(<< >>)]

delete_profile(file, profile_name) ==
    LET profiles == read_profiles(file)
        removed == get(profiles, profile_name)
    IN IF removed = None
       THEN [res |-> Err("NotFound"), file |-> file]
       ELSE [res |-> Ok(Unit),
             file |-> write_profiles(remove(profiles, profile_name))]

----------------------------------------------------------------------------
(* Text.  A string the code takes apart is a sequence of characters.       *)

starts_with(s, p) == Len(s) >= Len(p) /\ SubSeq(s, 1, Len(p)) = p
ends_with(s, p) == Len(s) >= Len(p) /\ SubSeq(s, Len(s) - Len(p) + 1, Len(s)) = p

(* str::strip_prefix                                                       *)
strip_prefix(s, p) ==
    IF starts_with(s, p) THEN Some(SubSeq(s, Len(p) + 1, Len(s))) ELSE None

Positions(s, c) == {i \in 1..Len(s) : s[i] = c}
First(I) == CHOOSE i \in I : \A j \in I : i <= j
Final(I) == CHOOSE i \in I : \A j \in I : j <= i

(* str::splitn(2, c): the text before the first c and the text after it,   *)
(* or the whole text alone when c does not occur.                          *)
splitn2(s, c) ==
    IF Positions(s, c) = {} THEN <<s>>
    ELSE LET i == First(Positions(s, c))
         IN <<SubSeq(s, 1, i - 1), SubSeq(s, i + 1, Len(s))>>

(* str::split(c).last(): the text after the last c.                        *)
split_last(s, c) ==
    IF Positions(s, c) = {} THEN s
    ELSE SubSeq(s, Final(Positions(s, c)) + 1, Len(s))

(* str::trim_matches(c): every leading and trailing c removed.             *)
trim_matches(s, c) ==
    LET keep == {i \in 1..Len(s) : s[i] # c}
    IN IF keep = {} THEN << >> ELSE SubSeq(s, First(keep), Final(keep))

(* str::trim_end_matches(p): the suffix p removed as often as it repeats.  *)
RECURSIVE trim_end_matches(_, _)
trim_end_matches(s, p) ==
    IF Len(p) > 0 /\ ends_with(s, p)
    THEN trim_end_matches(SubSeq(s, 1, Len(s) - Len(p)), p)
    ELSE s

GIT_AT == <<"g", "i", "t", "@">>
SSH_SCHEME == <<"s", "s", "h", ":", "/", "/">>
HTTPS_SCHEME == <<"h", "t", "t", "p", "s", ":", "/", "/">>
DOT_GIT == <<".", "g", "i", "t">>

----------------------------------------------------------------------------
(* src/src/util/git.rs: remote URLs.                                       *)

split_path(host, path) ==
    LET it == splitn2(trim_matches(path, "/"), "/")
    IN IF Len(it) < 2 THEN None
       ELSE Some(<<host, it[1], trim_end_matches(it[2], DOT_GIT)>>)

parse_remote(url) ==
    IF strip_prefix(url, GIT_AT) # None
    THEN LET parts == splitn2(strip_prefix(url, GIT_AT)[1], ":")
         IN IF Len(parts) < 2 THEN None ELSE split_path(parts[1], parts[2])
    ELSE IF strip_prefix(url, SSH_SCHEME) # None
    THEN LET after_user == split_last(strip_prefix(url, SSH_SCHEME)[1], "@")
             parts == splitn2(after_user, "/")
         IN IF Len(parts) < 2 THEN None ELSE split_path(parts[1], parts[2])
    ELSE IF strip_prefix(url, HTTPS_SCHEME) # None
    THEN LET parts == splitn2(strip_prefix(url, HTTPS_SCHEME)[1], "/")
         IN IF Len(parts) < 2 THEN None ELSE split_path(parts[1], parts[2])
    ELSE None

to_ssh(host, owner, repo) ==
    GIT_AT \o host \o <<":">> \o owner \o <<"/">> \o repo \o DOT_GIT

to_https(host, owner, repo) ==
    HTTPS_SCHEME \o host \o <<"/">> \o owner \o <<"/">> \o repo \o DOT_GIT

(* The components a caller may format: texts of at most MaxTokens tokens,  *)
(* the tokens being a plain character, the separators the parser splits at *)
(* and the suffix it strips.                                               *)
MaxTokens == 2

Tokens == {<<"a">>, <<"/">>, <<":">>, <<"@">>, DOT_GIT}

RECURSIVE Texts(_)
Texts(n) ==
    IF n = 0 THEN {<< >>}
    ELSE Texts(n - 1) \cup {t \o k : t \in Texts(n - 1), k \in Tokens}

Hosts == Texts(1) \ {<< >>}
Owners == Texts(1) \ {<< >>}
Repos == Texts(MaxTokens) \ {<< >>}
Triples == Hosts \X Owners \X Repos

NoRemote == [triple |-> None, url |-> None, parsed |-> None]

(* The texts an origin may hold: one of the three recognised prefixes or   *)
(* an unrecognised one, followed by at most MaxUrlTokens tokens.           *)
MaxUrlTokens == 5

HTTP_SCHEME == <<"h", "t", "t", "p", ":", "/", "/">>
Schemes == {GIT_AT, SSH_SCHEME, HTTPS_SCHEME, HTTP_SCHEME}
Urls == {s \o b : s \in Schemes, b \in Texts(MaxUrlTokens)}

----------------------------------------------------------------------------
(* src/src/core/auth.rs: the text forms of AuthType.  A text is a sequence *)
(* of characters.                                                          *)

(* char::to_lowercase on the letters the texts hold.                       *)
lowercase(c) ==
    CASE c = "N" -> "n" [] c = "O" -> "o" [] c = "E" -> "e"
      [] c = "S" -> "s" [] c = "H" -> "h" [] c = "G" -> "g"
      [] OTHER -> c

to_lowercase(s) == [i \in 1..Len(s) |-> lowercase(s[i])]

(* str::trim: leading and trailing white space removed.                    *)
trim(s) == trim_matches(s, " ")

NONE_STR == <<"n", "o", "n", "e">>
SSH_STR == <<"s", "s", "h">>
GH_STR == <<"g", "h">>

from_str(s) ==
    CASE to_lowercase(trim(s)) = NONE_STR -> Ok("None")
      [] to_lowercase(trim(s)) = SSH_STR -> Ok("SSH")
      [] to_lowercase(trim(s)) = GH_STR -> Ok("GH")
      [] OTHER -> Err("InvalidInput")

(* Into<&str> for AuthType                                                 *)
into_str(a) ==
    CASE a = "None" -> NONE_STR
      [] a = "SSH" -> SSH_STR
      [] a = "GH" -> GH_STR

(* Every spelling of a word in upper and lower case.                       *)
uppercase(c) ==
    CASE c = "n" -> "N" [] c = "o" -> "O" [] c = "e" -> "E"
      [] c = "s" -> "S" [] c = "h" -> "H" [] c = "g" -> "G"
      [] OTHER -> c

Spellings(w) ==
    {s \in [1..Len(w) -> {w[i] : i \in 1..Len(w)} \cup {uppercase(w[i]) : i \in 1..Len(w)}] :
        \A i \in 1..Len(w) : lowercase(s[i]) = w[i]}

(* The texts given to from_str: the three words and words that are none of *)
(* them, in every spelling, with and without white space around them.      *)
Words == {NONE_STR, SSH_STR, GH_STR, << >>, <<"s", "h">>, <<"g", "h", "e">>,
          <<"n", "o", " ", "n", "e">>}
Pads == {<< >>, <<" ">>}
AuthTexts ==
    {l \o s \o r : l \in Pads, r \in Pads, s \in UNION {Spellings(w) : w \in Words}}

NoAuth == [given |-> None, text |-> None, parsed |-> None]

NoRace == [inv |-> << >>, log |-> << >>]

NoTemp == [lock |-> None, poisoned |-> FALSE, env |-> None, th |-> << >>]

----------------------------------------------------------------------------
(* The file system the commands run in.  A path is the sequence of its     *)
(* components below the root; GitRoots are the directories that hold a     *)
(* .git directory.  Two of them, /a and /w/a, have the same name.          *)

Dirs ==
    {<< >>, <<"a">>, <<"w">>, <<"w", "a">>, <<"w", "a", "src">>, <<"w", "b">>,
     <<"w", "d">>}
Files == {<<"w", "a", "src", "lib.rs">>}
GitRoots == {<<"a">>, <<"w", "a">>, <<"w", "b">>}
Paths == Dirs \cup Files \cup {<<"w", "x">>}

(* The paths the commands are given: the two repository roots, a           *)
(* directory and a file inside one, a directory outside any and a path     *)
(* that does not exist.                                                    *)
AppPaths ==
    {<<"w", "a">>, <<"w", "a", "src">>, <<"w", "a", "src", "lib.rs">>,
     <<"w", "b">>, <<"w", "d">>, <<"w", "x">>}

exists(p) == p \in Dirs \cup Files
is_file(p) == p \in Files
is_dir(p) == p \in Dirs

(* Path::parent, PathBuf::pop and Path::file_name.                         *)
parent(p) == IF Len(p) = 0 THEN None ELSE Some(SubSeq(p, 1, Len(p) - 1))
file_name(p) == IF Len(p) = 0 THEN None ELSE Some(p[Len(p)])

(* src/src/core/project.rs                                                 *)
Project_new(path) ==
    IF ~exists(path) THEN Err("InvalidInput") ELSE Ok(path)

(* The walk of resolve_git_repo_name over a file system whose directories  *)
(* in marked contain a .git directory.                                     *)
RECURSIVE walk_up(_, _)
walk_up(marked, cur) ==
    IF cur \in marked THEN file_name(cur)
    ELSE IF parent(cur) = None THEN None
    ELSE walk_up(marked, parent(cur)[1])

(* The directory the walk stops at: the root of the project of a path.      *)
RECURSIVE root_up(_)
root_up(cur) ==
    IF cur \in GitRoots THEN Some(cur)
    ELSE IF parent(cur) = None THEN None
    ELSE root_up(parent(cur)[1])

repo_root(start) == root_up(IF is_file(start) THEN parent(start)[1] ELSE start)

(* The name of the outermost marked directory above start.                 *)
resolve_git_repo_name_outermost(marked, start) ==
    LET above == {d \in marked : starts_with(start, d)}
    IN Ok(IF above = {} THEN None
          ELSE file_name(CHOOSE d \in above : \A e \in above : Len(d) <= Len(e)))

resolve_git_repo_name(marked, start) ==
    Ok(walk_up(marked, IF is_file(start) THEN parent(start)[1] ELSE start))

get_repo_name(marked, path) ==
    LET name == resolve_git_repo_name(marked, path).value
    IN IF name = None THEN Err("Other") ELSE Ok(name[1])

(* Project::new(path)?.get_repo_name()? over the marker directories marked *)
project_in(marked, path) ==
    IF Project_new(path).kind # "Ok" THEN Project_new(path)
    ELSE get_repo_name(marked, path)

(* The same in the file system of the App's machines.                      *)
(* A faulty variant that names a project by its root and the directory    *)
(* above it.                                                               *)
project_of_by_parent(path) ==
    IF project_in(GitRoots, path).kind # "Ok" THEN project_in(GitRoots, path)
    ELSE IF Len(repo_root(path)[1]) < 2 THEN Ok("/" \o project_in(GitRoots, path).value)
    ELSE Ok(repo_root(path)[1][Len(repo_root(path)[1]) - 1] \o "/"
              \o project_in(GitRoots, path).value)

project_of(path) == project_in(GitRoots, path)

NoProject == [marked |-> {}, path |-> << >>, name |-> None]

NoWalk == [marked |-> {}, start |-> << >>, cur |-> << >>, pc |-> "idle", res |-> None]

(* git::ensure_repo                                                        *)
ensure_repo(repo) ==
    IF repo \in GitRoots THEN Ok(Unit) ELSE Err("InvalidInput")

----------------------------------------------------------------------------
(* src/src/util/git.rs: the local configuration of one repository and the  *)
(* git subprocesses that read and write it.                                *)

CleanConfig ==
    [user_name |-> None, user_email |-> None, ssh_command |-> None,
     credential_helper |-> None, use_http_path |-> None, origin |-> None]

GH_HELPER == "!gh auth git-credential"

(* A fault makes the step-th git subprocess of a call fail: "status" is a  *)
(* non-zero exit, "spawn" is Command::output returning Err.                *)
(* What is_gh_authenticated looks at: the hosts gh/hosts.yml lists, and    *)
(* whether it holds an oauth_token; whether GH_TOKEN or GITHUB_TOKEN is    *)
(* set; and how `gh auth status` ends.                                     *)
GhEnvs ==
    [hosts : SUBSET {<<"h">>}, oauth_token : BOOLEAN, token : BOOLEAN,
     status : {"ok", "status", "spawn"}]

(* The hosts.yml the tests install: no host of the model's origins in it,  *)
(* no token variable, no gh to spawn.                                      *)
GhLoggedOut ==
    [hosts |-> {}, oauth_token |-> TRUE, token |-> FALSE, status |-> "spawn"]

is_gh_authenticated(gh, host) ==
    IF host \in gh.hosts /\ gh.oauth_token THEN TRUE
    ELSE IF gh.token THEN TRUE
    ELSE gh.status = "ok"

NoFault == [step |-> 0, how |-> "ok", gh |-> GhLoggedOut]

(* The longest call, apply of an SSH profile, runs seven subprocesses.     *)
FaultSteps == 1..7
Faults ==
    {NoFault} \cup {[step |-> i, how |-> h, gh |-> GhLoggedOut] :
                        i \in FaultSteps, h \in {"status", "spawn"}}

(* The calls in which every git subprocess succeeds, in every state of the *)
(* GH credentials.                                                         *)
NoFaults == {[NoFault EXCEPT !.gh = gh] : gh \in GhEnvs}

(* A call threads g = [cfg, n, res, ran]: the configuration so far, the    *)
(* number of subprocesses already run, the Result of the last step and the *)
(* subprocesses run so far.  Once res is an Err the `?` of the code has    *)
(* returned: later steps leave g alone.                                    *)
start(cfg) == [cfg |-> cfg, n |-> 0, res |-> Ok(Unit), ran |-> << >>]
failed(g) == g.res.kind # "Ok"

(* run_git: args names the command, natural is how git itself ends it and  *)
(* effect is the configuration a successful command leaves.  res is Err on *)
(* a spawn failure, else Ok(status.success()).  ran records the command,   *)
(* how it ended, whether the fault hit it and the configuration it met.    *)
outcome(g, f, natural) == IF f.step = g.n + 1 THEN f.how ELSE natural

run_git(g, f, args, natural, effect) ==
    IF failed(g) THEN g
    ELSE [cfg |-> IF outcome(g, f, natural) = "ok" THEN effect ELSE g.cfg,
          n |-> g.n + 1,
          res |-> IF outcome(g, f, natural) = "spawn"
                  THEN Err("SpawnFailed")
                  ELSE Ok(outcome(g, f, natural) = "ok"),
          ran |-> Append(g.ran, [cmd |-> args[1], key |-> args[2],
                                 how |-> outcome(g, f, natural),
                                 fault |-> f.step = g.n + 1,
                                 before |-> g.cfg])]

(* run_git(..)? followed by the check of status.success()                  *)
checked(o) ==
    IF failed(o) THEN o
    ELSE IF ~o.res.value THEN [o EXCEPT !.res = Err("Other")]
    ELSE [o EXCEPT !.res = Ok(Unit)]

(* let _ = run_git(..)?                                                    *)
spawned(o) == IF failed(o) THEN o ELSE [o EXCEPT !.res = Ok(Unit)]

(* let _ = run_git(..); Ok(())                                             *)
ignored(g, o) == IF failed(g) THEN g ELSE [o EXCEPT !.res = Ok(Unit)]

config_set(g, f, key, val) ==
    run_git(g, f, <<"set", key>>, "ok", [g.cfg EXCEPT ![key] = Some(val)])

set_local_identity(g, f, name, email) ==
    checked(config_set(checked(config_set(g, f, "user_name", name)),
                       f, "user_email", email))

(* git config --local --unset key exits non-zero when the key is not set;  *)
(* whatever happened is dropped and Ok(()) returned.                       *)
unset_local(g, f, key) ==
    ignored(g, run_git(g, f, <<"unset", key>>,
                       IF g.cfg[key] = None THEN "status" ELSE "ok",
                       [g.cfg EXCEPT ![key] = None]))

(* git remote get-url origin: no such remote is a non-zero exit, and any   *)
(* non-zero exit is Ok(None).                                              *)
remote_read(o, origin) ==
    IF failed(o) THEN o
    ELSE [o EXCEPT !.res = Ok(IF o.res.value THEN origin ELSE None)]

get_remote_url(g, f) ==
    remote_read(run_git(g, f, <<"get-url", "origin">>,
                        IF g.cfg.origin = None THEN "status" ELSE "ok", g.cfg),
                g.cfg.origin)

set_remote_url(g, f, url) == checked(config_set(g, f, "origin", url))

ssh_command_for(key_path) == <<"ssh -i ", key_path, " -F /dev/null">>

ensure_ssh_command(g, f, key_path) ==
    checked(config_set(g, f, "ssh_command", ssh_command_for(key_path)))

clear_ssh_command(g, f) == unset_local(g, f, "ssh_command")

set_gh_credential_helper(g, f) ==
    spawned(config_set(checked(config_set(g, f, "credential_helper", GH_HELPER)),
                       f, "use_http_path", "true"))

clear_gh_credential_helper(g, f) ==
    unset_local(unset_local(g, f, "credential_helper"), f, "use_http_path")

----------------------------------------------------------------------------
(* ProfileManager::apply_profile_to_repo                                   *)

(* Some(url) when the remote parses, with the triple it parses to.          *)
parsed_remote(remote) == IF remote = None THEN None ELSE parse_remote(remote[1])

ssh_url_of(t) == to_ssh(t[1], t[2], t[3])
https_url_of(t) == to_https(t[1], t[2], t[3])

(* A faulty variant that fails the apply when the credentials are missing. *)
gh_diagnostic_required(g, f, host) ==
    IF failed(g) \/ is_gh_authenticated(f.gh, host) THEN g
    ELSE [g EXCEPT !.res = Err("Other")]

(* let _gh_ok = git::is_gh_authenticated(&host): reached when the rewriting *)
(* did not return early, and its value dropped.                            *)
gh_diagnostic(g, f, host) ==
    IF failed(g) THEN g
    ELSE IF is_gh_authenticated(f.gh, host) THEN g ELSE g

(* A faulty variant that clears the SSH command of a profile without key. *)
ssh_key_step_clears(g, f, profile) ==
    IF profile.ssh_key_path # None
    THEN ensure_ssh_command(g, f, profile.ssh_key_path[1])
    ELSE clear_ssh_command(g, f)

ssh_key_step(g, f, profile) ==
    IF profile.ssh_key_path # None
    THEN ensure_ssh_command(g, f, profile.ssh_key_path[1])
    ELSE g

(* Faulty variants of the rewriting steps: one rewrites an origin of any   *)
(* scheme to the SSH shorthand, one misses the ssh:// form.                *)
ssh_remote_step_any_scheme(g, f, remote) ==
    IF parsed_remote(remote) # None
    THEN set_remote_url(g, f, ssh_url_of(parsed_remote(remote)[1]))
    ELSE g

gh_remote_step_shorthand_only(g, f, remote) ==
    IF parsed_remote(remote) = None THEN g
    ELSE gh_diagnostic(
             IF starts_with(remote[1], GIT_AT)
             THEN set_remote_url(g, f, https_url_of(parsed_remote(remote)[1]))
             ELSE g,
             f, parsed_remote(remote)[1][1])

(* A faulty variant that swaps the scheme of the origin: an https:// URL   *)
(* becomes the SSH shorthand and any other parsable URL the https:// URL.  *)
ssh_remote_step_swaps(g, f, remote) ==
    IF parsed_remote(remote) = None THEN g
    ELSE IF starts_with(remote[1], HTTPS_SCHEME)
    THEN set_remote_url(g, f, ssh_url_of(parsed_remote(remote)[1]))
    ELSE set_remote_url(g, f, https_url_of(parsed_remote(remote)[1]))

ssh_remote_step(g, f, remote) ==
    IF parsed_remote(remote) # None /\ starts_with(remote[1], HTTPS_SCHEME)
    THEN set_remote_url(g, f, ssh_url_of(parsed_remote(remote)[1]))
    ELSE g

gh_remote_step(g, f, remote) ==
    IF parsed_remote(remote) = None THEN g
    ELSE gh_diagnostic(
             IF starts_with(remote[1], GIT_AT) \/ starts_with(remote[1], SSH_SCHEME)
             THEN set_remote_url(g, f, https_url_of(parsed_remote(remote)[1]))
             ELSE g,
             f, parsed_remote(remote)[1][1])

(* A faulty variant of the SSH branch that keeps the credential helper.    *)
apply_ssh_keeps_helper(g, f, profile, remote) ==
    ssh_remote_step(ssh_key_step(g, f, profile), f, remote)

apply_ssh(g, f, profile, remote) ==
    clear_gh_credential_helper(
        ssh_remote_step(ssh_key_step(g, f, profile), f, remote), f)

apply_gh(g, f, profile, remote) ==
    clear_ssh_command(
        set_gh_credential_helper(gh_remote_step(g, f, remote), f), f)

(* A faulty variant of the None branch that keeps the SSH command.         *)
apply_none_keeps_ssh(g, f) == clear_gh_credential_helper(g, f)

apply_none(g, f) == clear_gh_credential_helper(clear_ssh_command(g, f), f)

(* A faulty variant that takes a GH profile without hostname for a None   *)
(* profile.                                                                *)
apply_auth_needs_hostname(g, f, profile) ==
    IF failed(g) THEN g
    ELSE CASE profile.auth_type = "SSH" -> apply_ssh(g, f, profile, g.res.value)
           [] profile.auth_type = "GH" /\ profile.hostname # None ->
                apply_gh(g, f, profile, g.res.value)
           [] OTHER -> apply_none(g, f)

(* match profile.auth_type, entered with g.res = Ok(remote).               *)
apply_auth(g, f, profile) ==
    IF failed(g) THEN g
    ELSE CASE profile.auth_type = "SSH" -> apply_ssh(g, f, profile, g.res.value)
           [] profile.auth_type = "GH" -> apply_gh(g, f, profile, g.res.value)
           [] profile.auth_type = "None" -> apply_none(g, f)

applied_to(git, project_path, g) ==
    [res |-> IF failed(g) THEN g.res ELSE Ok(Unit),
     git |-> [git EXCEPT ![project_path] = g.cfg]]

(* The subprocesses of one apply, run on the configuration cfg.            *)
apply_steps(profile, cfg, f) ==
    apply_auth(
      get_remote_url(
        set_local_identity(start(cfg), f, profile.name, profile.email), f),
      f, profile)

(* Returns the Result and the configuration of every repository after.     *)
apply_profile_to_repo(profile, project_path, git, f) ==
    IF ensure_repo(project_path).kind # "Ok"
    THEN [res |-> ensure_repo(project_path), git |-> git]
    ELSE applied_to(git, project_path,
                    apply_steps(profile, git[project_path], f))

----------------------------------------------------------------------------
(* project_profiles.toml: one key = "value" line per bound project.        *)

read_project_profiles(file) ==
    [k \in {l[1] : l \in file} |-> (CHOOSE l \in file : l[1] = k)[2]]

write_project_profiles(map) == {<<k, map[k]>> : k \in DOMAIN map}

read_project_profile(profiles_file, map_file, repo_name) ==
    LET map == read_project_profiles(map_file)
    IN IF repo_name \in DOMAIN map
       THEN Ok(get(read_profiles(profiles_file), map[repo_name]))
       ELSE Ok(None)

(* App::use_profile, App::get_project_profile, App::reset_profile_for_project. *)
(* use and reset return the Result, the mapping file and the repositories'  *)
(* configurations they leave behind.                                        *)

(* A faulty variant of the binding step that drops the other bindings.     *)
bound_forgets_others(map_file, repo_name, profile_name, applied) ==
    [res |-> applied.res,
     map_file |-> write_project_profiles(insert(<< >>, repo_name, profile_name)),
     git |-> applied.git]

bound(map_file, repo_name, profile_name, applied) ==
    [res |-> applied.res,
     map_file |-> write_project_profiles(
                    insert(read_project_profiles(map_file), repo_name, profile_name)),
     git |-> applied.git]

use_profile(profiles_file, map_file, git, profile_name, project_path, f) ==
    IF read_profile(profiles_file, profile_name).value = None
    THEN [res |-> Err("NotFound"), map_file |-> map_file, git |-> git]
    ELSE IF project_of(project_path).kind # "Ok"
    THEN [res |-> project_of(project_path), map_file |-> map_file, git |-> git]
    ELSE bound(map_file, project_of(project_path).value, profile_name,
               apply_profile_to_repo(
                   read_profile(profiles_file, profile_name).value[1],
                   project_path, git, f))

found_profile(found, repo_name) ==
    IF found = None THEN Err("NotFound") ELSE Ok(<<found[1], repo_name>>)

get_project_profile(profiles_file, map_file, project_path) ==
    IF project_of(project_path).kind # "Ok" THEN project_of(project_path)
    ELSE found_profile(
           read_project_profile(profiles_file, map_file,
                                project_of(project_path).value).value,
           project_of(project_path).value)

(* A faulty variant of the unbinding step that keeps the entry.            *)
unbound_keeps_entry(map_file, repo_name, res, git) ==
    [res |-> res, map_file |-> map_file, git |-> git]

unbound(map_file, repo_name, res, git) ==
    [res |-> res,
     map_file |-> write_project_profiles(
                    remove(read_project_profiles(map_file), repo_name)),
     git |-> git]

reset_git(g, f) ==
    clear_gh_credential_helper(
        clear_ssh_command(
            unset_local(unset_local(g, f, "user_name"), f, "user_email"), f), f)

reset_profile_for_project(map_file, git, project_path, f) ==
    IF project_of(project_path).kind # "Ok"
    THEN [res |-> project_of(project_path), map_file |-> map_file, git |-> git]
    ELSE IF ensure_repo(project_path).kind # "Ok"
    THEN unbound(map_file, project_of(project_path).value,
                 ensure_repo(project_path), git)
    ELSE unbound(map_file, project_of(project_path).value,
                 applied_to(git, project_path,
                            reset_git(start(git[project_path]), f)).res,
                 applied_to(git, project_path,
                            reset_git(start(git[project_path]), f)).git)

----------------------------------------------------------------------------
(* The state machine of the profile store.                                 *)

Call(op, profile_name, path, res) ==
    [op |-> op, profile_name |-> profile_name, path |-> path, res |-> res]

Succeeded == last.res.kind = "Ok"

Init ==
    /\ profiles_toml = << >>
    /\ project_profiles_toml = {}
    /\ git_config = [r \in GitRoots |-> CleanConfig]
    /\ last = Call("init", "", << >>, Ok(Unit))
    /\ latest = [n \in Ids |-> None]
    /\ codec = NoRemote
    /\ project = NoProject
    /\ auth_text = NoAuth
    /\ race = NoRace
    /\ temp = NoTemp
    /\ walk = NoWalk

AddProfile(profile_name, profile) ==
    LET r == add_profile(profiles_toml, profile_name, profile)
    IN /\ profiles_toml' = r.file
       /\ last' = Call("add_profile", profile_name, << >>, r.res)
       /\ latest' = IF r.res.kind = "Ok"
                    THEN [latest EXCEPT ![profile_name] = Some(profile)]
                    ELSE latest
       /\ UNCHANGED <<aux, project_profiles_toml, git_config>>

UpdateProfile(profile_name, profile) ==
    LET r == update_profile(profiles_toml, profile_name, profile)
    IN /\ profiles_toml' = r.file
       /\ last' = Call("update_profile", profile_name, << >>, r.res)
       /\ latest' = IF r.res.kind = "Ok"
                    THEN [latest EXCEPT ![profile_name] = Some(profile)]
                    ELSE latest
       /\ UNCHANGED <<aux, project_profiles_toml, git_config>>

DeleteProfile(profile_name) ==
    LET r == delete_profile(profiles_toml, profile_name)
    IN /\ profiles_toml' = r.file
       /\ last' = Call("delete_profile", profile_name, << >>, r.res)
       /\ latest' = IF r.res.kind = "Ok"
                    THEN [latest EXCEPT ![profile_name] = None]
                    ELSE latest
       /\ UNCHANGED <<aux, project_profiles_toml, git_config>>

ReadProfile(profile_name) ==
    /\ last' = Call("read_profile", profile_name, << >>,
                    read_profile(profiles_toml, profile_name))
    /\ UNCHANGED <<aux, profiles_toml, project_profiles_toml, git_config, latest>>

Next ==
    \/ \E n \in Ids : \E p \in Inputs(n) : AddProfile(n, p)
    \/ \E n \in Ids : \E p \in Inputs(n) : UpdateProfile(n, p)
    \/ \E n \in Ids : DeleteProfile(n)
    \/ \E n \in Ids : ReadProfile(n)

Spec == Init /\ [][Next]_vars

----------------------------------------------------------------------------
(* The state machine of App: profiles, bindings and repositories.          *)

ORIGIN_HTTPS == to_https(<<"h">>, <<"o">>, <<"r">>)

(* The profiles the CLI builds (cli.rs, AddProfile) when neither           *)
(* --hostname nor --ssh-key-path is passed and a key path is entered: the  *)
(* optional field of the chosen auth_type and no other.                    *)
AppInputs(n) ==
    {p \in Inputs(n) :
        \/ p.auth_type = "None" /\ p.hostname = None /\ p.ssh_key_path = None
        \/ p.auth_type = "SSH" /\ p.hostname = None /\ p.ssh_key_path # None
        \/ p.auth_type = "GH" /\ p.hostname # None /\ p.ssh_key_path = None}

InitApp ==
    /\ profiles_toml = << >>
    /\ project_profiles_toml = {}
    /\ git_config = [r \in GitRoots |->
                       IF r = <<"w", "a">>
                       THEN [CleanConfig EXCEPT !.origin = Some(ORIGIN_HTTPS)]
                       ELSE CleanConfig]
    /\ last = Call("init", "", << >>, Ok(Unit))
    /\ latest = [n \in Ids |-> None]
    /\ codec = NoRemote
    /\ project = NoProject
    /\ auth_text = NoAuth
    /\ race = NoRace
    /\ temp = NoTemp
    /\ walk = NoWalk

(* App's operations return their result to the caller and keep no record  *)
(* of it: last and latest belong to the store's state machine.             *)
AppAddProfile(profile_name, profile) ==
    /\ profiles_toml' = add_profile(profiles_toml, profile_name, profile).file
    /\ UNCHANGED <<aux, project_profiles_toml, git_config, last, latest>>

AppUpdateProfile(profile_name, profile) ==
    /\ profiles_toml' = update_profile(profiles_toml, profile_name, profile).file
    /\ UNCHANGED <<aux, project_profiles_toml, git_config, last, latest>>

(* A faulty variant of App::delete_profile that also drops the bindings of *)
(* the deleted profile.                                                    *)
AppDeleteProfile_unbinds(profile_name) ==
    /\ profiles_toml' = delete_profile(profiles_toml, profile_name).file
    /\ project_profiles_toml' =
          {l \in project_profiles_toml : l[2] # profile_name}
    /\ UNCHANGED <<aux, git_config, last, latest>>

AppDeleteProfile(profile_name) ==
    /\ profiles_toml' = delete_profile(profiles_toml, profile_name).file
    /\ UNCHANGED <<aux, project_profiles_toml, git_config, last, latest>>

(* App::list_profiles reads the store and writes nothing.                  *)
ListProfiles ==
    /\ DOMAIN read_profiles(profiles_toml) \subseteq Ids
    /\ UNCHANGED vars

UseProfile(profile_name, project_path, f) ==
    LET r == use_profile(profiles_toml, project_profiles_toml, git_config,
                         profile_name, project_path, f)
    IN /\ project_profiles_toml' = r.map_file
       /\ git_config' = r.git
       /\ UNCHANGED <<aux, profiles_toml, last, latest>>

GetProjectProfile(project_path) ==
    /\ get_project_profile(profiles_toml, project_profiles_toml,
                           project_path).kind
         \in {"Ok", "NotFound", "InvalidInput", "Other"}
    /\ UNCHANGED vars

ResetProfile(project_path, f) ==
    LET r == reset_profile_for_project(project_profiles_toml, git_config,
                                       project_path, f)
    IN /\ project_profiles_toml' = r.map_file
       /\ git_config' = r.git
       /\ UNCHANGED <<aux, profiles_toml, last, latest>>

(* src/src/util/output.rs, Runner::run: the Result of the operation is     *)
(* printed and returned.                                                   *)
Runner_run(result) == result

(* The commands of the CLI.  use, get and reset act on the current         *)
(* directory, which system::cwd returns or fails to return.                *)
Commands ==
    {[cmd |-> "AddProfile", profile_name |-> n, profile |-> Some(p), cwd |-> None] :
        n \in Ids, p \in Passed}
    \cup {[cmd |-> "DeleteProfile", profile_name |-> n, profile |-> None, cwd |-> None] :
            n \in Ids}
    \cup {[cmd |-> "ListProfiles", profile_name |-> "", profile |-> None, cwd |-> None]}
    \cup {[cmd |-> "UseProfile", profile_name |-> n, profile |-> None, cwd |-> c] :
            n \in Ids, c \in {Ok(q) : q \in Dirs} \cup {Err("NotFound")}}
    \cup {[cmd |-> c, profile_name |-> "", profile |-> None, cwd |-> d] :
            c \in {"GetProfile", "ResetProfile"},
            d \in {Ok(q) : q \in Dirs} \cup {Err("NotFound")}}

(* The Result of the closure a command hands to Runner::run: that of the   *)
(* App operation it calls.                                                 *)
operation(c, profiles_file, map_file, git) ==
    CASE c.cmd = "AddProfile" ->
           add_profile(profiles_file, c.profile_name, c.profile[1]).res
      [] c.cmd = "DeleteProfile" -> delete_profile(profiles_file, c.profile_name).res
      [] c.cmd = "ListProfiles" -> Ok(read_profiles(profiles_file))
      [] c.cmd = "UseProfile" ->
           use_profile(profiles_file, map_file, git, c.profile_name,
                       c.cwd.value, NoFault).res
      [] c.cmd = "GetProfile" ->
           get_project_profile(profiles_file, map_file, c.cwd.value)
      [] c.cmd = "ResetProfile" ->
           reset_profile_for_project(map_file, git, c.cwd.value, NoFault).res

(* cli::run: cwd()? returns its error; `let _ = runner.run(..)` drops the  *)
(* Result of Runner::run and the branch ends in Ok(()).                    *)
run(c, profiles_file, map_file, git) ==
    IF c.cwd # None /\ c.cwd.kind # "Ok" THEN c.cwd
    ELSE IF Runner_run(operation(c, profiles_file, map_file, git)).kind = "Ok"
    THEN Ok(Unit)
    ELSE Ok(Unit)

NextApp ==
    \/ \E n \in Ids : \E p \in AppInputs(n) : AppAddProfile(n, p)
    \/ \E n \in Ids : \E p \in AppInputs(n) : AppUpdateProfile(n, p)
    \/ \E n \in Ids : AppDeleteProfile(n)
    \/ ListProfiles
    \/ \E n \in Ids, path \in AppPaths : UseProfile(n, path, NoFault)
    \/ \E path \in AppPaths : GetProjectProfile(path)
    \/ \E path \in AppPaths : ResetProfile(path, NoFault)

SpecApp == InitApp /\ [][NextApp]_vars

----------------------------------------------------------------------------
(* The state machines of App on one repository whose origin may be of any  *)
(* form.  Under SpecApply every git subprocess ends as git itself ends it; *)
(* under SpecFault every use and every reset runs with one fault, or none. *)

(* The origins repository a may start with: none, an HTTPS URL, an ssh://  *)
(* URL of another repository and an https:// text that parse_remote        *)
(* rejects.                                                                *)
ORIGIN_SSH_SCHEME ==
    SSH_SCHEME \o GIT_AT \o <<"h", "/", "o", "/", "s">> \o DOT_GIT
ORIGIN_UNPARSABLE == HTTPS_SCHEME \o <<"h">>
Origins == {ORIGIN_HTTPS, ORIGIN_SSH_SCHEME, ORIGIN_UNPARSABLE}

ApplyPaths == {<<"w", "a">>}

InitApply ==
    /\ profiles_toml = << >>
    /\ project_profiles_toml = {}
    /\ git_config \in
          {[r \in GitRoots |->
               IF r \in ApplyPaths
               THEN [CleanConfig EXCEPT !.origin = o]
               ELSE CleanConfig] : o \in Option(Origins)}
    /\ last = Call("init", "", << >>, Ok(Unit))
    /\ latest = [n \in Ids |-> None]
    /\ codec = NoRemote
    /\ project = NoProject
    /\ auth_text = NoAuth
    /\ race = NoRace
    /\ temp = NoTemp
    /\ walk = NoWalk

NextApply ==
    \/ \E n \in Ids : \E p \in AppInputs(n) : AppAddProfile(n, p)
    \/ \E n \in Ids : AppDeleteProfile(n)
    \/ \E n \in Ids, path \in ApplyPaths, f \in NoFaults : UseProfile(n, path, f)
    \/ \E path \in ApplyPaths : ResetProfile(path, NoFault)

SpecApply == InitApply /\ [][NextApply]_vars

NextFault ==
    \/ \E n \in Ids : \E p \in AppInputs(n) : AppAddProfile(n, p)
    \/ \E n \in Ids : AppDeleteProfile(n)
    \/ \E n \in Ids, path \in ApplyPaths, f \in Faults : UseProfile(n, path, f)
    \/ \E path \in ApplyPaths, f \in Faults : ResetProfile(path, f)

SpecFault == InitApply /\ [][NextFault]_vars

----------------------------------------------------------------------------
(* The state machine of App on one repository that was configured by hand  *)
(* before its first use: any of the origins, an SSH command pinning the    *)
(* key of the profiles or another one, a credential helper, a per-path     *)
(* flag.  The stored profiles are of every shape cli.rs can build.         *)

OLD_KEY == "~/.ssh/old"

PriorConfigs ==
    {[CleanConfig EXCEPT !.origin = o, !.ssh_command = s,
                         !.credential_helper = h, !.use_http_path = u] :
        o \in Option(Origins),
        s \in Option({ssh_command_for(k) : k \in KeyPaths \cup {OLD_KEY}}),
        h \in Option({GH_HELPER}),
        u \in Option({"true"})}

InitPrior ==
    /\ profiles_toml = << >>
    /\ project_profiles_toml = {}
    /\ git_config \in
          {[r \in GitRoots |-> IF r \in ApplyPaths THEN c ELSE CleanConfig] :
              c \in PriorConfigs}
    /\ last = Call("init", "", << >>, Ok(Unit))
    /\ latest = [n \in Ids |-> None]
    /\ codec = NoRemote
    /\ project = NoProject
    /\ auth_text = NoAuth
    /\ race = NoRace
    /\ temp = NoTemp
    /\ walk = NoWalk

(* The commands of this machine name the first two ids of the pool: the   *)
(* stores stay few while the configurations they meet vary.                *)
PriorIds == {IdPool[1], IdPool[2]}

NextPrior ==
    \/ \E n \in PriorIds : \E p \in Inputs(n) : AppAddProfile(n, p)
    \/ \E n \in PriorIds : AppDeleteProfile(n)
    \/ \E n \in PriorIds, path \in ApplyPaths : UseProfile(n, path, NoFault)

SpecPrior == InitPrior /\ [][NextPrior]_vars

----------------------------------------------------------------------------
(* The state machine of App on the two repositories of the same name, /a   *)
(* and /w/a, with the first two ids of the pool.                           *)

TwinPaths == {<<"a">>, <<"w", "a">>}

NextTwin ==
    \/ \E n \in PriorIds : \E p \in AppInputs(n) : AppAddProfile(n, p)
    \/ \E n \in PriorIds : AppDeleteProfile(n)
    \/ \E n \in PriorIds, path \in TwinPaths : UseProfile(n, path, NoFault)
    \/ \E path \in TwinPaths : GetProjectProfile(path)
    \/ \E path \in TwinPaths : ResetProfile(path, NoFault)

SpecTwin == InitApp /\ [][NextTwin]_vars

----------------------------------------------------------------------------
(* The state machine of the remote URL codec: a triple is formatted to a   *)
(* URL and the URL is parsed.                                              *)

InitCodec ==
    /\ profiles_toml = << >>
    /\ project_profiles_toml = {}
    /\ git_config = [r \in GitRoots |-> CleanConfig]
    /\ last = Call("init", "", << >>, Ok(Unit))
    /\ latest = [n \in Ids |-> None]
    /\ codec \in {[triple |-> Some(t), url |-> None, parsed |-> None] : t \in Triples}
                   \cup {[triple |-> None, url |-> Some(u), parsed |-> None] : u \in Urls}
    /\ project = NoProject
    /\ auth_text = NoAuth
    /\ race = NoRace
    /\ temp = NoTemp
    /\ walk = NoWalk

ToSsh ==
    /\ codec.triple # None
    /\ codec.url = None
    /\ codec' = [codec EXCEPT !.url = Some(ssh_url_of(codec.triple[1]))]
    /\ UNCHANGED <<app, project, auth_text, race, temp, walk>>

ToHttps ==
    /\ codec.triple # None
    /\ codec.url = None
    /\ codec' = [codec EXCEPT !.url = Some(https_url_of(codec.triple[1]))]
    /\ UNCHANGED <<app, project, auth_text, race, temp, walk>>

ParseRemote ==
    /\ codec.url # None
    /\ codec' = [codec EXCEPT !.parsed = Some(parse_remote(codec.url[1]))]
    /\ UNCHANGED <<app, project, auth_text, race, temp, walk>>

NextCodec == ToSsh \/ ToHttps \/ ParseRemote

SpecCodec == InitCodec /\ [][NextCodec]_vars

----------------------------------------------------------------------------
(* The state machine of project resolution: a file system is given by the *)
(* set of its directories that contain a .git directory, and a path of it  *)
(* is resolved.  The root directory has no name and is never marked.       *)

Markings == SUBSET (Dirs \ {<< >>})

InitProject ==
    /\ profiles_toml = << >>
    /\ project_profiles_toml = {}
    /\ git_config = [r \in GitRoots |-> CleanConfig]
    /\ last = Call("init", "", << >>, Ok(Unit))
    /\ latest = [n \in Ids |-> None]
    /\ codec = NoRemote
    /\ project \in {[marked |-> m, path |-> p, name |-> None] :
                        m \in Markings, p \in Paths}
    /\ auth_text = NoAuth
    /\ race = NoRace
    /\ temp = NoTemp
    /\ walk = NoWalk

ResolveProject ==
    /\ project.name = None
    /\ project' = [project EXCEPT
                      !.name = Some(project_in(project.marked, project.path))]
    /\ UNCHANGED <<app, codec, auth_text, race, temp, walk>>

NextProject == ResolveProject

SpecProject == InitProject /\ [][NextProject]_vars

----------------------------------------------------------------------------
(* The loop of Project::resolve_git_repo_name, one iteration at a step:    *)
(* cur is the directory the next iteration tests, pc is "loop" until the   *)
(* function returns.  Any directory may hold a .git directory, the root    *)
(* included.                                                               *)

WalkMarkings == SUBSET Dirs

(* let mut cur = if start.is_file() { parent } else { start }              *)
walk_from(path) == IF is_file(path) THEN parent(path)[1] ELSE path

InitWalk ==
    /\ profiles_toml = << >>
    /\ project_profiles_toml = {}
    /\ git_config = [r \in GitRoots |-> CleanConfig]
    /\ last = Call("init", "", << >>, Ok(Unit))
    /\ latest = [n \in Ids |-> None]
    /\ codec = NoRemote
    /\ project = NoProject
    /\ auth_text = NoAuth
    /\ race = NoRace
    /\ temp = NoTemp
    /\ walk \in {[marked |-> m, start |-> p, cur |-> walk_from(p),
                   pc |-> "loop", res |-> None] :
                     m \in WalkMarkings, p \in Paths}

(* git_dir.is_dir(): return the name of cur, or nothing when it has none.  *)
Found ==
    /\ walk.pc = "loop"
    /\ walk.cur \in walk.marked
    /\ walk' = [walk EXCEPT !.pc = "done", !.res = Some(Ok(file_name(walk.cur)))]
    /\ UNCHANGED <<app, codec, project, auth_text, race, temp>>

(* A faulty variant of the step to the parent that stays in a directory    *)
(* right below the root.                                                   *)
Pop_stops_below_root ==
    /\ walk.pc = "loop"
    /\ walk.cur \notin walk.marked
    /\ parent(walk.cur) # None
    /\ walk' = [walk EXCEPT
                   !.cur = IF Len(walk.cur) = 1 THEN walk.cur ELSE parent(walk.cur)[1]]
    /\ UNCHANGED <<app, codec, project, auth_text, race, temp>>

(* cur.pop() returned true: cur is now its parent.                         *)
Pop ==
    /\ walk.pc = "loop"
    /\ walk.cur \notin walk.marked
    /\ parent(walk.cur) # None
    /\ walk' = [walk EXCEPT !.cur = parent(walk.cur)[1]]
    /\ UNCHANGED <<app, codec, project, auth_text, race, temp>>

(* cur.pop() returned false: break, and Ok(None) after the loop.           *)
Break ==
    /\ walk.pc = "loop"
    /\ walk.cur \notin walk.marked
    /\ parent(walk.cur) = None
    /\ walk' = [walk EXCEPT !.pc = "done", !.res = Some(Ok(None))]
    /\ UNCHANGED <<app, codec, project, auth_text, race, temp>>

NextWalk == Found \/ Pop \/ Break

SpecWalk == InitWalk /\ [][NextWalk]_vars

(* The loop runs in the calling thread and nothing in it waits: an         *)
(* iteration that can be taken is taken.                                   *)
SpecWalkFair == SpecWalk /\ WF_vars(NextWalk)

----------------------------------------------------------------------------
(* The state machine of the AuthType texts: a value is turned into its     *)
(* text, and a text is parsed.                                             *)

InitAuth ==
    /\ profiles_toml = << >>
    /\ project_profiles_toml = {}
    /\ git_config = [r \in GitRoots |-> CleanConfig]
    /\ last = Call("init", "", << >>, Ok(Unit))
    /\ latest = [n \in Ids |-> None]
    /\ codec = NoRemote
    /\ project = NoProject
    /\ auth_text \in {[given |-> Some(a), text |-> None, parsed |-> None] : a \in AuthType}
                  \cup {[given |-> None, text |-> Some(t), parsed |-> None] : t \in AuthTexts}
    /\ race = NoRace
    /\ temp = NoTemp
    /\ walk = NoWalk

IntoStr ==
    /\ auth_text.given # None
    /\ auth_text.text = None
    /\ auth_text' = [auth_text EXCEPT !.text = Some(into_str(auth_text.given[1]))]
    /\ UNCHANGED <<app, codec, project, race, temp, walk>>

FromStr ==
    /\ auth_text.text # None
    /\ auth_text.parsed = None
    /\ auth_text' = [auth_text EXCEPT !.parsed = Some(from_str(auth_text.text[1]))]
    /\ UNCHANGED <<app, codec, project, race, temp, walk>>

NextAuth == IntoStr \/ FromStr

SpecAuth == InitAuth /\ [][NextAuth]_vars

----------------------------------------------------------------------------
(* The state machine of two invocations that mutate the store at the same  *)
(* time.  Each runs src/src/core/app.rs add_profile, update_profile or     *)
(* delete_profile in two steps: read_profiles reads the whole document,    *)
(* and, when the operation on what was read succeeds, write_profiles       *)
(* writes the whole document.                                              *)

Invocations == {1, 2}

Mutations ==
    UNION {{[op |-> o, profile_name |-> n, profile |-> Some(p)] :
               o \in {"add", "update"}, p \in AppInputs(n)} : n \in Ids}
    \cup {[op |-> "delete", profile_name |-> n, profile |-> None] : n \in Ids}

(* What the operation m makes of the document it read.                     *)
mutated(m, snapshot) ==
    CASE m.op = "add" -> add_profile(snapshot, m.profile_name, m.profile[1])
      [] m.op = "update" -> update_profile(snapshot, m.profile_name, m.profile[1])
      [] m.op = "delete" -> delete_profile(snapshot, m.profile_name)

(* The documents the invocations may find.                                 *)
Stores ==
    {<< >>} \cup UNION {{write_profiles(insert(<< >>, n, p)) : p \in AppInputs(n)} :
                          n \in Ids}

InitRace ==
    /\ profiles_toml \in Stores
    /\ project_profiles_toml = {}
    /\ git_config = [r \in GitRoots |-> CleanConfig]
    /\ last = Call("init", "", << >>, Ok(Unit))
    /\ latest = [n \in Ids |-> None]
    /\ codec = NoRemote
    /\ project = NoProject
    /\ auth_text = NoAuth
    /\ race \in {[inv |-> [i \in Invocations |->
                              [m |-> ms[i], pc |-> "read", snapshot |-> << >>,
                               res |-> None]],
                    log |-> << >>] : ms \in [Invocations -> Mutations]}
    /\ temp = NoTemp
    /\ walk = NoWalk

(* let mut profiles = Self::read_profiles()?                               *)
ReadWhole(i) ==
    /\ race.inv[i].pc = "read"
    /\ race' = [race EXCEPT !.inv[i].pc = "write",
                            !.inv[i].snapshot = profiles_toml,
                            !.log = Append(@, <<i, "read">>)]
    /\ UNCHANGED <<app, codec, project, auth_text, temp, walk>>

(* A faulty variant that applies the operation to the document as it is    *)
(* when the write happens.                                                 *)
WriteWhole_merges(i) ==
    /\ race.inv[i].pc = "write"
    /\ mutated(race.inv[i].m, race.inv[i].snapshot).res.kind = "Ok"
    /\ profiles_toml' = mutated(race.inv[i].m, profiles_toml).file
    /\ race' = [race EXCEPT !.inv[i].pc = "done",
                            !.inv[i].res = Some(Ok(Unit)),
                            !.log = Append(@, <<i, "write">>)]
    /\ UNCHANGED <<project_profiles_toml, git_config, last, latest, codec, project,
                   auth_text, temp, walk>>

(* The rest of the operation when it succeeds on what was read: the entry  *)
(* is inserted or removed and Self::write_profiles(&profiles) runs.        *)
WriteWhole(i) ==
    /\ race.inv[i].pc = "write"
    /\ mutated(race.inv[i].m, race.inv[i].snapshot).res.kind = "Ok"
    /\ profiles_toml' = mutated(race.inv[i].m, race.inv[i].snapshot).file
    /\ race' = [race EXCEPT !.inv[i].pc = "done",
                            !.inv[i].res = Some(Ok(Unit)),
                            !.log = Append(@, <<i, "write">>)]
    /\ UNCHANGED <<project_profiles_toml, git_config, last, latest, codec, project,
                   auth_text, temp, walk>>

(* The rest of the operation when it fails on what was read: the error is  *)
(* returned and nothing is written.                                        *)
Rejected(i) ==
    /\ race.inv[i].pc = "write"
    /\ mutated(race.inv[i].m, race.inv[i].snapshot).res.kind # "Ok"
    /\ race' = [race EXCEPT !.inv[i].pc = "done",
                            !.inv[i].res =
                                Some(mutated(race.inv[i].m, race.inv[i].snapshot).res)]
    /\ UNCHANGED <<app, codec, project, auth_text, temp, walk>>

NextRace ==
    \/ \E i \in Invocations : ReadWhole(i)
    \/ \E i \in Invocations : WriteWhole(i)
    \/ \E i \in Invocations : Rejected(i)

SpecRace == InitRace /\ [][NextRace]_vars

----------------------------------------------------------------------------
(* The state machine of src/src/test_helpers.rs: test threads that each    *)
(* make a TempConfig, use it and drop it.  lock is the thread that holds   *)
(* ENV_LOCK, poisoned is the flag of the Mutex, env is XDG_CONFIG_HOME.    *)
(* A thread is at "idle", "locked" (it holds the guard), "overridden" (it  *)
(* has set the variable), "alive" (new has returned the TempConfig),       *)
(* "dropping" (the value goes out of scope), "restored" (the body of drop  *)
(* has run, the fields are not yet dropped) or "done".                     *)

NumThreads == 3
Threads == 1..NumThreads

(* The directory of a thread's TempConfig, unique by process id and time.  *)
base(t) == <<"tmp", t>>

InitTemp ==
    /\ profiles_toml = << >>
    /\ project_profiles_toml = {}
    /\ git_config = [r \in GitRoots |-> CleanConfig]
    /\ last = Call("init", "", << >>, Ok(Unit))
    /\ latest = [n \in Ids |-> None]
    /\ codec = NoRemote
    /\ project = NoProject
    /\ auth_text = NoAuth
    /\ race = NoRace
    /\ temp \in {[lock |-> None, poisoned |-> FALSE, env |-> e,
                   th |-> [t \in Threads |->
                            [pc |-> "idle", prev |-> None, panicking |-> FALSE]]] :
                     e \in Option({<<"home", ".config">>})}
    /\ walk = NoWalk

(* ENV_LOCK.lock(), a poisoned lock taken with into_inner.                 *)
Lock(t) ==
    /\ temp.th[t].pc = "idle"
    /\ temp.lock = None
    /\ temp' = [temp EXCEPT !.lock = Some(t), !.th[t].pc = "locked"]
    /\ UNCHANGED <<app, codec, project, auth_text, race, walk>>

(* fs::create_dir_all(&base)? returns the error: the guard is dropped.     *)
CreateBaseFails(t) ==
    /\ temp.th[t].pc = "locked"
    /\ temp' = [temp EXCEPT !.lock = None, !.th[t].pc = "done"]
    /\ UNCHANGED <<app, codec, project, auth_text, race, walk>>

(* prev = env::var_os(..); env::set_var(.., &base)                         *)
Override(t) ==
    /\ temp.th[t].pc = "locked"
    /\ temp' = [temp EXCEPT !.th[t].prev = temp.env, !.env = Some(base(t)),
                            !.th[t].pc = "overridden"]
    /\ UNCHANGED <<app, codec, project, auth_text, race, walk>>

(* init_repo_at or init_gh_hosts panics: no TempConfig was made, the guard *)
(* is dropped by the unwinding and the lock is poisoned.                   *)
InitPanics(t) ==
    /\ temp.th[t].pc = "overridden"
    /\ temp' = [temp EXCEPT !.lock = None, !.poisoned = TRUE, !.th[t].pc = "done"]
    /\ UNCHANGED <<app, codec, project, auth_text, race, walk>>

(* Ok(TempConfig { _guard: guard, base, prev, .. })                        *)
Construct(t) ==
    /\ temp.th[t].pc = "overridden"
    /\ temp' = [temp EXCEPT !.th[t].pc = "alive"]
    /\ UNCHANGED <<app, codec, project, auth_text, race, walk>>

(* The test returns, or panics and unwinds: the TempConfig is dropped.     *)
GoesOutOfScope(t, panicking) ==
    /\ temp.th[t].pc = "alive"
    /\ temp' = [temp EXCEPT !.th[t].pc = "dropping", !.th[t].panicking = panicking]
    /\ UNCHANGED <<app, codec, project, auth_text, race, walk>>

(* A faulty variant of drop that leaves the variable as it is.             *)
Drop_keeps_override(t) ==
    /\ temp.th[t].pc = "dropping"
    /\ temp' = [temp EXCEPT !.th[t].pc = "restored"]
    /\ UNCHANGED <<app, codec, project, auth_text, race, walk>>

(* Drop::drop: set_var(prev) or remove_var, then remove_dir_all(base).     *)
Drop(t) ==
    /\ temp.th[t].pc = "dropping"
    /\ temp' = [temp EXCEPT !.env = temp.th[t].prev, !.th[t].pc = "restored"]
    /\ UNCHANGED <<app, codec, project, auth_text, race, walk>>

(* The fields are dropped after the body of drop: _guard unlocks ENV_LOCK  *)
(* and poisons it when the thread is panicking.                            *)
ReleaseGuard(t) ==
    /\ temp.th[t].pc = "restored"
    /\ temp' = [temp EXCEPT !.lock = None,
                            !.poisoned = temp.poisoned \/ temp.th[t].panicking,
                            !.th[t].pc = "done"]
    /\ UNCHANGED <<app, codec, project, auth_text, race, walk>>

NextTemp ==
    \/ \E t \in Threads : Lock(t)
    \/ \E t \in Threads : CreateBaseFails(t)
    \/ \E t \in Threads : Override(t)
    \/ \E t \in Threads : InitPanics(t)
    \/ \E t \in Threads : Construct(t)
    \/ \E t \in Threads, panicking \in BOOLEAN : GoesOutOfScope(t, panicking)
    \/ \E t \in Threads : Drop(t)
    \/ \E t \in Threads : ReleaseGuard(t)

SpecTemp == InitTemp /\ [][NextTemp]_vars

----------------------------------------------------------------------------
(* The profile store (ProfileManager), checked under Spec.                 *)

stored == read_profiles(profiles_toml)

(* What the data model asks of one profile.                                *)
FieldsFitAuth(p) ==
    /\ p.hostname # None => p.auth_type = "GH"
    /\ p.ssh_key_path # None => p.auth_type = "SSH"

(* C1: every stored profile has hostname only under GH, ssh_key_path only  *)
(* under SSH, and neither under None.                                      *)
C1_FieldPresence == \A n \in DOMAIN stored : FieldsFitAuth(stored[n])

(* C2: add_profile fails with AlreadyExists exactly when the id is a key,  *)
(* then changing nothing; otherwise the store gains id -> p and keeps      *)
(* every other entry.                                                      *)
C2_AddContract ==
    \A n \in Ids, p \in Passed :
        LET r == add_profile(profiles_toml, n, p)
            after == read_profiles(r.file)
        IN /\ r.res.kind \in {"Ok", "AlreadyExists"}
           /\ r.res.kind = "AlreadyExists" <=> n \in DOMAIN stored
           /\ n \in DOMAIN stored => r.file = profiles_toml
           /\ n \notin DOMAIN stored =>
                /\ DOMAIN after = DOMAIN stored \cup {n}
                /\ after[n] = p
                /\ \A m \in DOMAIN stored : after[m] = stored[m]

C2_Witness ==
    /\ last.op = "add_profile"
    /\ last.res.kind = "AlreadyExists"
    /\ Cardinality(DOMAIN stored) = NumIds

(* C3: update_profile on an existing id is rejected with InvalidData, the  *)
(* store unchanged, exactly when the auth_type stored under the id forbids *)
(* a field the incoming profile sets.                                      *)
C3_UpdateRejection ==
    \A n \in DOMAIN stored, p \in Passed :
        LET r == update_profile(profiles_toml, n, p)
            auth == stored[n].auth_type
            forbidden ==
                \/ auth = "None" /\ (p.hostname # None \/ p.ssh_key_path # None)
                \/ auth = "SSH" /\ p.hostname # None
                \/ auth = "GH" /\ p.ssh_key_path # None
        IN /\ r.res.kind = "InvalidData" <=> forbidden
           /\ r.res.kind = "InvalidData" => r.file = profiles_toml

C3_Witness ==
    /\ last.op = "update_profile"
    /\ last.res.kind = "InvalidData"
    /\ \E p \in Passed :
          /\ p.auth_type # stored[last.profile_name].auth_type
          /\ FieldsFitAuth(p)
          /\ update_profile(profiles_toml, last.profile_name, p).res.kind
               = "InvalidData"

(* C4: a successful update_profile stores exactly the incoming profile     *)
(* under the id, its auth_type included, keeps every other entry, and a    *)
(* following read_profile of the id returns it.                            *)
C4_UpdateReplaces ==
    \A n \in Ids, p \in Passed :
        LET r == update_profile(profiles_toml, n, p)
            after == read_profiles(r.file)
        IN r.res.kind = "Ok" =>
             /\ DOMAIN after = DOMAIN stored
             /\ after[n] = p
             /\ \A m \in DOMAIN stored \ {n} : after[m] = stored[m]
             /\ read_profile(r.file, n) = Ok(Some(p))

C4_Witness ==
    /\ last.op = "update_profile"
    /\ Succeeded
    /\ Cardinality(DOMAIN stored) = NumIds
    /\ \E p \in Passed :
          /\ p.auth_type # stored[last.profile_name].auth_type
          /\ update_profile(profiles_toml, last.profile_name, p).res.kind = "Ok"

(* C5: update_profile on an absent id fails with NotFound and leaves the   *)
(* store as it was.                                                        *)
C5_UpdateAbsent ==
    \A n \in Ids \ DOMAIN stored, p \in Passed :
        LET r == update_profile(profiles_toml, n, p)
        IN /\ r.res.kind = "NotFound"
           /\ r.file = profiles_toml
           /\ n \notin DOMAIN read_profiles(r.file)

C5_Witness ==
    /\ last.op = "update_profile"
    /\ last.res.kind = "NotFound"
    /\ last.profile_name \notin DOMAIN stored
    /\ stored # << >>

(* C6: delete_profile fails with NotFound on an absent id, changing        *)
(* nothing; otherwise it removes that entry alone, so add_profile of a new *)
(* id followed by delete_profile of it gives back the original store.      *)
C6_DeleteContract ==
    \A n \in Ids :
        LET r == delete_profile(profiles_toml, n)
            after == read_profiles(r.file)
        IN /\ n \notin DOMAIN stored =>
                /\ r.res.kind = "NotFound"
                /\ r.file = profiles_toml
                /\ \A p \in Passed :
                     LET added == add_profile(profiles_toml, n, p).file
                         back == delete_profile(added, n)
                     IN back.res.kind = "Ok" /\ back.file = profiles_toml
           /\ n \in DOMAIN stored =>
                /\ r.res.kind = "Ok"
                /\ DOMAIN after = DOMAIN stored \ {n}
                /\ \A m \in DOMAIN after : after[m] = stored[m]

C6_Witness ==
    /\ last.op = "delete_profile"
    /\ Succeeded
    /\ last.profile_name \notin DOMAIN stored
    /\ stored # << >>

(* C7: read_profile never fails and returns the profile of the latest      *)
(* successful add_profile or update_profile of the id, or None when the    *)
(* id was never added or was last deleted.                                 *)
C7_ReadLatest ==
    \A n \in Ids : read_profile(profiles_toml, n) = Ok(latest[n])

C7_Witness ==
    /\ last.op = "read_profile"
    /\ last.res = Ok(latest[last.profile_name])
    /\ \E n \in Ids : latest[n] # None
    /\ \E n \in Ids : latest[n] = None

----------------------------------------------------------------------------
(* App: bindings and repositories, checked under SpecApp.                  *)

bindings == read_project_profiles(project_profiles_toml)

(* C8: a successful use_profile binds the project of the path to the       *)
(* profile id, over any earlier binding, keeps every other binding, and a  *)
(* following get_project_profile of the path returns the profile stored    *)
(* under the id with the project name.                                     *)
C8_UseBinds ==
    \A n \in Ids, path \in Paths :
        LET r == use_profile(profiles_toml, project_profiles_toml, git_config,
                             n, path, NoFault)
            after == read_project_profiles(r.map_file)
            repo == project_of(path).value
        IN r.res.kind = "Ok" =>
             /\ DOMAIN after = DOMAIN bindings \cup {repo}
             /\ after[repo] = n
             /\ \A k \in DOMAIN bindings \ {repo} : after[k] = bindings[k]
             /\ get_project_profile(profiles_toml, r.map_file, path)
                  = Ok(<<stored[n], repo>>)

C8_Witness ==
    /\ DOMAIN bindings = {project_of(r).value : r \in GitRoots}
    /\ \A r \in GitRoots \cap AppPaths :
          /\ bindings[project_of(r).value] \in DOMAIN stored
          /\ git_config[r].user_name
               = Some(stored[bindings[project_of(r).value]].name)
    /\ \E r \in GitRoots, n \in Ids :
          /\ n # bindings[project_of(r).value]
          /\ \E k \in DOMAIN bindings : bindings[k] = n
          /\ use_profile(profiles_toml, project_profiles_toml, git_config,
                         n, r, NoFault).res.kind = "Ok"

(* C9: reset_profile_for_project removes the binding of the project and no *)
(* other, returns no error when the project is unbound, and a second call  *)
(* leaves the bindings and the repositories as the first left them.        *)
C9_ResetIdempotent ==
    \A path \in Paths :
        LET r == reset_profile_for_project(project_profiles_toml, git_config,
                                           path, NoFault)
            after == read_project_profiles(r.map_file)
            repo == project_of(path).value
            again == reset_profile_for_project(r.map_file, r.git, path, NoFault)
        IN project_of(path).kind = "Ok" =>
             /\ DOMAIN after = DOMAIN bindings \ {repo}
             /\ \A k \in DOMAIN after : after[k] = bindings[k]
             /\ repo \notin DOMAIN bindings => r.res.kind = "Ok"
             /\ again.map_file = r.map_file
             /\ again.git = r.git

(* C10: for every path that resolves to a project, after                   *)
(* reset_profile_for_project the repository of that project has no local   *)
(* user.name, user.email, core.sshCommand, credential.helper or            *)
(* credential.useHttpPath.                                                 *)
C10_ResetClearsRepo ==
    \A path \in Paths :
        LET r == reset_profile_for_project(project_profiles_toml, git_config,
                                           path, NoFault)
            cfg == r.git[repo_root(path)[1]]
        IN project_of(path).kind = "Ok" =>
             /\ cfg.user_name = None
             /\ cfg.user_email = None
             /\ cfg.ssh_command = None
             /\ cfg.credential_helper = None
             /\ cfg.use_http_path = None

(* C11: get_project_profile fails with NotFound when the project of the    *)
(* path has no binding, as after a reset_profile_for_project that followed *)
(* a use_profile, and succeeds only when the project has a binding.        *)
C11_GetUnbound ==
    \A path \in Paths :
        LET repo == project_of(path).value
            got == get_project_profile(profiles_toml, project_profiles_toml, path)
        IN project_of(path).kind = "Ok" =>
             /\ repo \notin DOMAIN bindings => got = Err("NotFound")
             /\ got.kind = "Ok" => repo \in DOMAIN bindings
             /\ \A n \in Ids :
                  LET used == use_profile(profiles_toml, project_profiles_toml,
                                          git_config, n, path, NoFault)
                      reset == reset_profile_for_project(used.map_file, used.git,
                                                         path, NoFault)
                  IN used.res.kind = "Ok" =>
                       /\ reset.res.kind = "Ok"
                       /\ get_project_profile(profiles_toml, reset.map_file, path)
                            = Err("NotFound")

(* Repository a was rewritten by an SSH profile and then reset, while b is *)
(* still bound.                                                            *)
C11_Witness ==
    /\ git_config[<<"w", "a">>].origin = Some(ssh_url_of(parse_remote(ORIGIN_HTTPS)[1]))
    /\ git_config[<<"w", "a">>].user_name = None
    /\ "a" \notin DOMAIN bindings
    /\ "b" \in DOMAIN bindings
    /\ get_project_profile(profiles_toml, project_profiles_toml, <<"w", "a">>)
         = Err("NotFound")
    /\ get_project_profile(profiles_toml, project_profiles_toml, <<"w", "b">>).kind
         = "Ok"

(* C12: the project mapping changes only in a step of use_profile or of    *)
(* reset_profile_for_project, which leave the store alone: add_profile,    *)
(* update_profile, delete_profile, list_profiles and get_project_profile   *)
(* never change it.                                                        *)
C12_MappingFrame ==
    [][project_profiles_toml' # project_profiles_toml =>
         /\ profiles_toml' = profiles_toml
         /\ \E path \in AppPaths :
              \/ project_profiles_toml'
                   = reset_profile_for_project(project_profiles_toml, git_config,
                                               path, NoFault).map_file
              \/ \E n \in Ids :
                   project_profiles_toml'
                     = use_profile(profiles_toml, project_profiles_toml,
                                   git_config, n, path, NoFault).map_file]_vars

(* A bound profile was deleted from the store and its binding is still in  *)
(* the mapping.                                                            *)
C12_Witness ==
    /\ Cardinality(DOMAIN bindings) = 2
    /\ \E k \in DOMAIN bindings : bindings[k] \notin DOMAIN stored
    /\ stored # << >>

(* C19: when use_profile fails validation (the id is not in the store, the *)
(* path does not exist, resolves to no project or is not a working tree),  *)
(* the mapping and the repositories are as before the call.                *)
C19_ValidationFirst ==
    \A n \in Ids, path \in Paths :
        LET r == use_profile(profiles_toml, project_profiles_toml, git_config,
                             n, path, NoFault)
        IN \/ n \notin DOMAIN stored
           \/ ~exists(path)
           \/ project_of(path).kind # "Ok"
           \/ ensure_repo(path).kind # "Ok"
           => /\ r.res.kind # "Ok"
              /\ r.map_file = project_profiles_toml
              /\ r.git = git_config

(* C29: cli::run returns an error whenever the App operation of the        *)
(* command returns one.                                                    *)
C29_FailureReported ==
    \A c \in Commands :
        (c.cwd = None \/ c.cwd.kind = "Ok") =>
            (operation(c, profiles_toml, project_profiles_toml, git_config).kind # "Ok"
                => run(c, profiles_toml, project_profiles_toml, git_config).kind # "Ok")

----------------------------------------------------------------------------
(* One repository with any origin: apply by auth type, checked under       *)
(* SpecApply, and failing git subprocesses, checked under SpecFault.       *)

(* What a successful apply leaves as local identity.                       *)
IdentityOf(cfg, p) ==
    /\ cfg.user_name = Some(p.name)
    /\ cfg.user_email = Some(p.email)

(* C14: after a successful use_profile of an SSH profile the identity is   *)
(* the profile's, the SSH command pins the profile's key with no config    *)
(* lookup, a parsable https:// origin has become the git@ URL of the same  *)
(* triple, an origin of any other kind is as before, and no credential     *)
(* helper or per-path flag is set.                                         *)
C14_SshApply ==
    \A n \in DOMAIN stored, path \in Paths :
        LET r == use_profile(profiles_toml, project_profiles_toml, git_config,
                             n, path, NoFault)
            p == stored[n]
            before == git_config[path].origin
            after == r.git[path]
        IN r.res.kind = "Ok" /\ p.auth_type = "SSH" =>
             /\ IdentityOf(after, p)
             /\ p.ssh_key_path # None =>
                  after.ssh_command
                    = Some(<<"ssh -i ", p.ssh_key_path[1], " -F /dev/null">>)
             /\ after.origin =
                  IF /\ before # None
                     /\ starts_with(before[1], HTTPS_SCHEME)
                     /\ parse_remote(before[1]) # None
                  THEN Some(ssh_url_of(parse_remote(before[1])[1]))
                  ELSE before
             /\ after.credential_helper = None
             /\ after.use_http_path = None

(* Repository a, bound to an SSH profile, carries that profile's identity  *)
(* and key and the git@ URL its https:// origin was rewritten to.          *)
C14_Witness ==
    /\ "a" \in DOMAIN bindings
    /\ bindings["a"] \in DOMAIN stored
    /\ stored[bindings["a"]].auth_type = "SSH"
    /\ IdentityOf(git_config[<<"w", "a">>], stored[bindings["a"]])
    /\ git_config[<<"w", "a">>].ssh_command
         = Some(ssh_command_for(stored[bindings["a"]].ssh_key_path[1]))
    /\ git_config[<<"w", "a">>].credential_helper = None
    /\ git_config[<<"w", "a">>].origin
         = Some(GIT_AT \o <<"h", ":", "o", "/", "r">> \o DOT_GIT)

(* C15: after a successful use_profile of a GH profile the identity is the *)
(* profile's, a parsable git@ or ssh:// origin has become the https:// URL *)
(* of the same triple, an origin of any other kind is as before, the       *)
(* credential helper is the gh command with the per-path flag true, and no *)
(* SSH command is set.                                                     *)
C15_GhApply ==
    \A n \in DOMAIN stored, path \in Paths :
        LET r == use_profile(profiles_toml, project_profiles_toml, git_config,
                             n, path, NoFault)
            p == stored[n]
            before == git_config[path].origin
            after == r.git[path]
        IN r.res.kind = "Ok" /\ p.auth_type = "GH" =>
             /\ IdentityOf(after, p)
             /\ after.origin =
                  IF /\ before # None
                     /\ \/ starts_with(before[1], GIT_AT)
                        \/ starts_with(before[1], SSH_SCHEME)
                     /\ parse_remote(before[1]) # None
                  THEN Some(https_url_of(parse_remote(before[1])[1]))
                  ELSE before
             /\ after.credential_helper = Some("!gh auth git-credential")
             /\ after.use_http_path = Some("true")
             /\ after.ssh_command = None

(* Repository a, bound to a GH profile, carries the helper and the         *)
(* https:// URL its ssh:// origin was rewritten to.                        *)
C15_Witness ==
    /\ "a" \in DOMAIN bindings
    /\ bindings["a"] \in DOMAIN stored
    /\ stored[bindings["a"]].auth_type = "GH"
    /\ IdentityOf(git_config[<<"w", "a">>], stored[bindings["a"]])
    /\ git_config[<<"w", "a">>].credential_helper = Some(GH_HELPER)
    /\ git_config[<<"w", "a">>].origin
         = Some(HTTPS_SCHEME \o <<"h", "/", "o", "/", "s">> \o DOT_GIT)

(* C30: use_profile returns the same Result, mapping and repository        *)
(* configurations whatever is_gh_authenticated finds.                      *)
C30_DiagnosticIgnored ==
    \A n \in DOMAIN stored, path \in Paths, f \in NoFaults :
        use_profile(profiles_toml, project_profiles_toml, git_config, n, path, f)
          = use_profile(profiles_toml, project_profiles_toml, git_config,
                        n, path, NoFault)

(* Repository a is bound to a GH profile that was applied to a parsable    *)
(* origin, for whose host the check answers yes or no by the credentials.  *)
C30_Witness ==
    /\ "a" \in DOMAIN bindings
    /\ bindings["a"] \in DOMAIN stored
    /\ stored[bindings["a"]].auth_type = "GH"
    /\ git_config[<<"w", "a">>].credential_helper = Some(GH_HELPER)
    /\ parsed_remote(git_config[<<"w", "a">>].origin) # None
    /\ \E yes, no \in GhEnvs :
          /\ is_gh_authenticated(yes, parsed_remote(git_config[<<"w", "a">>].origin)[1][1])
          /\ ~is_gh_authenticated(no, parsed_remote(git_config[<<"w", "a">>].origin)[1][1])

(* C16: after a successful use_profile of a None profile the repository    *)
(* has no SSH command, no credential helper and no per-path flag, the      *)
(* identity is the profile's and the origin is what it was before.         *)
C16_NoneApply ==
    \A n \in DOMAIN stored, path \in Paths :
        LET r == use_profile(profiles_toml, project_profiles_toml, git_config,
                             n, path, NoFault)
            p == stored[n]
            after == r.git[path]
        IN r.res.kind = "Ok" /\ p.auth_type = "None" =>
             /\ IdentityOf(after, p)
             /\ after.ssh_command = None
             /\ after.credential_helper = None
             /\ after.use_http_path = None
             /\ after.origin = git_config[path].origin

(* Repository a, bound to a None profile whose identity it carries, has no *)
(* SSH command or helper and keeps the git@ URL an SSH profile gave it.    *)
C16_Witness ==
    /\ "a" \in DOMAIN bindings
    /\ bindings["a"] \in DOMAIN stored
    /\ stored[bindings["a"]].auth_type = "None"
    /\ IdentityOf(git_config[<<"w", "a">>], stored[bindings["a"]])
    /\ git_config[<<"w", "a">>].ssh_command = None
    /\ git_config[<<"w", "a">>].credential_helper = None
    /\ git_config[<<"w", "a">>].origin
         = Some(GIT_AT \o <<"h", ":", "o", "/", "s">> \o DOT_GIT)

(* The subprocess the fault hit, if the call got that far.                 *)
Hit(g) == {i \in 1..Len(g.ran) : g.ran[i].fault}

(* A failure to unset a key that was not set.                              *)
NoOpUnset(step) ==
    step.how # "ok" /\ step.cmd = "unset" /\ step.before[step.key] = None

(* C17: when the read of the origin URL fails during an apply, use_profile *)
(* returns an error and the identity, SSH command, credential helper,      *)
(* origin and mapping are as before the call.                              *)
C17_ReadFailureWritesNothing ==
    \A n \in DOMAIN stored, path \in ApplyPaths, f \in Faults :
        LET g == apply_steps(stored[n], git_config[path], f)
            r == use_profile(profiles_toml, project_profiles_toml, git_config,
                             n, path, f)
        IN (\E i \in Hit(g) : g.ran[i].cmd = "get-url") =>
             /\ r.res.kind # "Ok"
             /\ r.git = git_config
             /\ r.map_file = project_profiles_toml

(* C18: when a write of user.name, user.email, the origin URL, the SSH     *)
(* command, the credential helper or its per-path flag fails, apply        *)
(* returns an error, runs no later step and leaves the repository as the   *)
(* steps before the failed one made it.                                    *)
C18_WriteFailureAborts ==
    \A n \in DOMAIN stored, path \in ApplyPaths, f \in Faults :
        LET g == apply_steps(stored[n], git_config[path], f)
            r == apply_profile_to_repo(stored[n], path, git_config, f)
        IN \A i \in Hit(g) :
             g.ran[i].cmd = "set" =>
               /\ r.res.kind # "Ok"
               /\ i = Len(g.ran)
               /\ r.git[path] = g.ran[i].before

(* C20: in apply and in reset a failed subprocess goes unreported only     *)
(* when it is an unset of a key that was not set: a failed unset of a key  *)
(* that is set, a failed read of the origin URL and a failed write make    *)
(* the call return an error.                                               *)
C20_OnlyNoOpUnsetsSwallowed ==
    \A path \in ApplyPaths, f \in Faults :
        /\ \A n \in DOMAIN stored :
              LET g == apply_steps(stored[n], git_config[path], f)
                  r == apply_profile_to_repo(stored[n], path, git_config, f)
              IN /\ \A i \in Hit(g) : ~NoOpUnset(g.ran[i]) => r.res.kind # "Ok"
                 /\ (\A i \in Hit(g) : NoOpUnset(g.ran[i])) => r.res.kind = "Ok"
        /\ LET g == reset_git(start(git_config[path]), f)
               r == reset_profile_for_project(project_profiles_toml, git_config,
                                              path, f)
           IN /\ \A i \in Hit(g) : ~NoOpUnset(g.ran[i]) => r.res.kind # "Ok"
              /\ (\A i \in Hit(g) : NoOpUnset(g.ran[i])) => r.res.kind = "Ok"

(* C25: a use_profile changes the mapping only when its apply has         *)
(* completed, and the first subprocess of an apply that writes the         *)
(* repository sets the local identity.                                     *)
C25_MappingAfterApply ==
    \A n \in DOMAIN stored, path \in Paths, f \in Faults :
        LET r == use_profile(profiles_toml, project_profiles_toml, git_config,
                             n, path, f)
        IN /\ r.map_file # project_profiles_toml => r.res.kind = "Ok"
           /\ (path \in GitRoots /\ r.git # git_config) =>
                  LET g == apply_steps(stored[n], git_config[path], f)
                  IN g.ran[1].cmd = "set" /\ g.ran[1].key = "user_name"

----------------------------------------------------------------------------
(* The remote URL codec, checked under SpecCodec.                          *)

(* C13: for every triple with non-empty components, parse_remote of the    *)
(* to_ssh URL and parse_remote of the to_https URL both give the triple    *)
(* back.                                                                   *)
C13_RoundTrip ==
    (codec.triple # None /\ codec.parsed # None) =>
        codec.parsed[1] = Some(codec.triple[1])

(* C23: a triple parse_remote returns has no empty component, and its     *)
(* repo keeps the second of two .git suffixes that end the URL.            *)
C23_ParsedShape ==
    (codec.triple = None /\ codec.parsed # None /\ codec.parsed[1] # None) =>
        LET t == codec.parsed[1][1]
        IN /\ t[1] # << >> /\ t[2] # << >> /\ t[3] # << >>
           /\ ends_with(codec.url[1], DOT_GIT \o DOT_GIT) => ends_with(t[3], DOT_GIT)

(* The origin of a repository after a profile is applied to it when its   *)
(* origin was the URL of the codec and every git subprocess succeeds.      *)
OriginAfter(profile) ==
    apply_steps(profile, [CleanConfig EXCEPT !.origin = codec.url], NoFault).cfg.origin

(* C26: an origin that apply rewrites parses to the same triple before    *)
(* and after the rewriting.                                                *)
C26_RewriteKeepsTriple ==
    (codec.triple = None /\ codec.url # None) =>
        \A profile \in Passed :
            OriginAfter(profile) # codec.url =>
                parse_remote(OriginAfter(profile)[1]) = parse_remote(codec.url[1])

----------------------------------------------------------------------------
(* Project resolution, checked under SpecProject.                          *)

(* The directory the resolution starts at, and the marked directories at   *)
(* or above it.                                                            *)
StartDir == IF is_file(project.path) THEN parent(project.path)[1] ELSE project.path
Enclosing == {d \in project.marked : starts_with(StartDir, d)}
Innermost == CHOOSE d \in Enclosing : \A e \in Enclosing : Len(e) <= Len(d)

(* C21: resolving an existing path that has a marked directory at or      *)
(* above its starting directory returns the name of the innermost one.     *)
C21_InnermostRoot ==
    (project.name # None /\ exists(project.path) /\ Enclosing # {}) =>
        project.name[1] = Ok(Innermost[Len(Innermost)])

(* A file two levels inside a repository that is nested in another one.    *)
C21_Witness ==
    /\ project.name # None
    /\ is_file(project.path)
    /\ Cardinality(Enclosing) >= 2
    /\ Len(StartDir) > Len(Innermost)

(* C22: resolving an existing path with no marked directory at or above   *)
(* it fails with error kind NotFound.                                      *)
C22_NoRepoNotFound ==
    (project.name # None /\ exists(project.path) /\ Enclosing = {}) =>
        project.name[1].kind = "NotFound"

----------------------------------------------------------------------------
(* The AuthType texts, checked under SpecAuth.                             *)

Recognised(t) == to_lowercase(trim(t)) \in {NONE_STR, SSH_STR, GH_STR}

(* C24: parsing a text that is none of none, ssh, gh after trimming and   *)
(* case folding fails with kind InvalidData, and parsing the text of a     *)
(* value returns the value.                                                *)
C24_AuthTextParse ==
    auth_text.parsed # None =>
        /\ ~Recognised(auth_text.text[1]) => auth_text.parsed[1] = Err("InvalidData")
        /\ auth_text.given # None => auth_text.parsed[1] = Ok(auth_text.given[1])

----------------------------------------------------------------------------
(* Two invocations at the same time, checked under SpecRace.               *)

(* The place of a step in the order of steps, and the invocation whose     *)
(* write is the last one so far.                                           *)
At(i, step) == CHOOSE k \in 1..Len(race.log) : race.log[k] = <<i, step>>
Took(i, step) == \E k \in 1..Len(race.log) : race.log[k] = <<i, step>>
Writers == {i \in Invocations : Took(i, "write")}
LastWriter == CHOOSE j \in Writers : \A i \in Writers : At(i, "write") <= At(j, "write")

(* The document that holds what was read with the one entry of m inserted  *)
(* or removed.                                                             *)
SnapshotWith(m, snapshot) ==
    IF m.op = "delete"
    THEN write_profiles(remove(read_profiles(snapshot), m.profile_name))
    ELSE write_profiles(insert(read_profiles(snapshot), m.profile_name, m.profile[1]))

----------------------------------------------------------------------------
(* The test threads, checked under SpecTemp.                               *)

(* The threads whose TempConfig exists and whose drop has not run.         *)
Alive == {t \in Threads : temp.th[t].pc \in {"alive", "dropping"}}

(* C28: at most one TempConfig is alive; the thread of an alive TempConfig *)
(* holds the lock and the variable is its base directory; when the body of *)
(* drop has run the thread still holds the lock and the variable is what   *)
(* it was before new; and a free lock, poisoned or not, can be taken by    *)
(* every idle thread.                                                      *)
C28_OneTempConfig ==
    /\ Cardinality(Alive) <= 1
    /\ \A t \in Alive : temp.lock = Some(t) /\ temp.env = Some(base(t))
    /\ \A t \in Threads :
          temp.th[t].pc = "restored" =>
              temp.lock = Some(t) /\ temp.env = temp.th[t].prev
    /\ \A t \in Threads :
          (temp.lock = None /\ temp.th[t].pc = "idle") => ENABLED Lock(t)

(* A TempConfig is alive on a poisoned lock, after the drop of another     *)
(* thread's TempConfig put back the value the variable had at the start.   *)
C28_Witness ==
    /\ temp.poisoned
    /\ \E t \in Alive : temp.th[t].prev = Some(<<"home", ".config">>)
    /\ \E t \in Threads : temp.th[t].pc = "done" /\ temp.th[t].panicking

----------------------------------------------------------------------------
(* One repository configured by hand before its first use, checked under   *)
(* SpecPrior.                                                              *)

(* C31: for every id, every path and every configuration and mapping the   *)
(* call meets, a second use_profile of the same id on the same path leaves *)
(* the repositories' configurations (identity, origin, SSH command,        *)
(* credential helper, per-path flag) and the mapping exactly as the first  *)
(* left them.                                                              *)
C31_UseTwice ==
    \A n \in Ids, path \in Paths :
        LET once == use_profile(profiles_toml, project_profiles_toml, git_config,
                                n, path, NoFault)
            twice == use_profile(profiles_toml, once.map_file, once.git,
                                 n, path, NoFault)
        IN /\ twice.git = once.git
           /\ twice.map_file = once.map_file

(* Repository a is bound to a stored SSH profile whose use rewrote the     *)
(* https:// origin, and a further use of it succeeds.                      *)
C31_Witness ==
    /\ "a" \in DOMAIN bindings
    /\ bindings["a"] \in DOMAIN stored
    /\ stored[bindings["a"]].auth_type = "SSH"
    /\ IdentityOf(git_config[<<"w", "a">>], stored[bindings["a"]])
    /\ git_config[<<"w", "a">>].origin
         = Some(ssh_url_of(parse_remote(ORIGIN_HTTPS)[1]))
    /\ use_profile(profiles_toml, project_profiles_toml, git_config,
                   bindings["a"], <<"w", "a">>, NoFault).res.kind = "Ok"

(* C32: after a successful use_profile, of a profile of any auth type on a *)
(* repository with any prior configuration, the repository does not have   *)
(* both an SSH command and a credential helper.                            *)
C32_NotBoth ==
    \A n \in Ids, path \in Paths :
        LET r == use_profile(profiles_toml, project_profiles_toml, git_config,
                             n, path, NoFault)
        IN r.res.kind = "Ok" =>
             ~(/\ r.git[path].ssh_command # None
               /\ r.git[path].credential_helper # None)

(* Repository a has both set, by hand, and an SSH and a GH profile are     *)
(* stored whose use succeeds.                                              *)
C32_Witness ==
    /\ git_config[<<"w", "a">>].ssh_command # None
    /\ git_config[<<"w", "a">>].credential_helper # None
    /\ \E n, m \in DOMAIN stored :
          /\ stored[n].auth_type = "SSH"
          /\ stored[m].auth_type = "GH"
          /\ use_profile(profiles_toml, project_profiles_toml, git_config,
                         n, <<"w", "a">>, NoFault).res.kind = "Ok"
          /\ use_profile(profiles_toml, project_profiles_toml, git_config,
                         m, <<"w", "a">>, NoFault).res.kind = "Ok"

(* C33: a successful use_profile of an SSH profile without ssh_key_path    *)
(* leaves the SSH command of the repository as it was, set or not; used    *)
(* after an SSH profile with a key, it leaves the command pinning that     *)
(* key.                                                                    *)
C33_KeylessKeepsOverride ==
    \A n \in DOMAIN stored, path \in Paths :
        LET r == use_profile(profiles_toml, project_profiles_toml, git_config,
                             n, path, NoFault)
        IN /\ r.res.kind = "Ok"
           /\ stored[n].auth_type = "SSH"
           /\ stored[n].ssh_key_path = None
           => /\ r.git[path].ssh_command = git_config[path].ssh_command
              /\ \A m \in DOMAIN stored :
                   LET keyed == use_profile(profiles_toml, project_profiles_toml,
                                            git_config, m, path, NoFault)
                       keyless == use_profile(profiles_toml, keyed.map_file,
                                              keyed.git, n, path, NoFault)
                   IN /\ stored[m].auth_type = "SSH"
                      /\ stored[m].ssh_key_path # None
                      => /\ keyless.res.kind = "Ok"
                         /\ keyless.git[path].ssh_command
                              = Some(ssh_command_for(stored[m].ssh_key_path[1]))

(* An SSH profile with a key and one without are stored; repository a is   *)
(* bound to the one without, carries its identity, and its SSH command     *)
(* pins the key of the other.                                              *)
C33_Witness ==
    /\ "a" \in DOMAIN bindings
    /\ bindings["a"] \in DOMAIN stored
    /\ stored[bindings["a"]].auth_type = "SSH"
    /\ stored[bindings["a"]].ssh_key_path = None
    /\ IdentityOf(git_config[<<"w", "a">>], stored[bindings["a"]])
    /\ \E m \in DOMAIN stored :
          /\ stored[m].auth_type = "SSH"
          /\ stored[m].ssh_key_path # None
          /\ git_config[<<"w", "a">>].ssh_command
               = Some(ssh_command_for(stored[m].ssh_key_path[1]))

(* C34: apply_profile_to_repo leaves the same configurations, and returns  *)
(* the same Result, for two profiles that differ only in id and hostname,  *)
(* applied to the same path in the same state.                             *)
C34_HostnameAndIdUnused ==
    \A n \in DOMAIN stored, i \in Ids, h \in Option(Hostnames), path \in Paths :
        apply_profile_to_repo([stored[n] EXCEPT !.id = i, !.hostname = h],
                              path, git_config, NoFault)
          = apply_profile_to_repo(stored[n], path, git_config, NoFault)

(* Repository a carries what the GH profile it is bound to left, and a     *)
(* profile of another id and no hostname leaves the same.                  *)
C34_Witness ==
    /\ "a" \in DOMAIN bindings
    /\ bindings["a"] \in DOMAIN stored
    /\ stored[bindings["a"]].auth_type = "GH"
    /\ stored[bindings["a"]].hostname # None
    /\ IdentityOf(git_config[<<"w", "a">>], stored[bindings["a"]])
    /\ git_config[<<"w", "a">>].credential_helper = Some(GH_HELPER)
    /\ \E i \in Ids \ {bindings["a"]} :
          apply_profile_to_repo(
              [stored[bindings["a"]] EXCEPT !.id = i, !.hostname = None],
              <<"w", "a">>, git_config, NoFault)
            = [res |-> Ok(Unit), git |-> git_config]

----------------------------------------------------------------------------
(* Two repositories of one name, checked under SpecTwin.                   *)

(* The pairs of distinct repository roots whose directories have the same  *)
(* name.                                                                   *)
Twins ==
    {t \in GitRoots \X GitRoots :
        t[1] # t[2] /\ file_name(t[1]) = file_name(t[2])}

(* C35: the binding seen for a path depends only on the name its root      *)
(* resolves to.  For two distinct repositories of the same name,           *)
(* get_project_profile returns the same for both; a successful use_profile *)
(* on one makes get_project_profile on the other return the profile used;  *)
(* reset_profile_for_project on one makes it fail with NotFound on the     *)
(* other; and both calls leave the configuration of the other repository   *)
(* as it was.                                                              *)
C35_BindingByName ==
    \A t \in Twins :
        LET reset == reset_profile_for_project(project_profiles_toml, git_config,
                                               t[1], NoFault)
        IN /\ get_project_profile(profiles_toml, project_profiles_toml, t[1])
                = get_project_profile(profiles_toml, project_profiles_toml, t[2])
           /\ get_project_profile(profiles_toml, reset.map_file, t[2])
                = Err("NotFound")
           /\ reset.git[t[2]] = git_config[t[2]]
           /\ \A n \in Ids :
                LET used == use_profile(profiles_toml, project_profiles_toml,
                                        git_config, n, t[1], NoFault)
                IN used.res.kind = "Ok" =>
                     /\ get_project_profile(profiles_toml, used.map_file, t[2])
                          = Ok(<<stored[n], file_name(t[2])[1]>>)
                     /\ used.git[t[2]] = git_config[t[2]]

(* /a and /w/a carry the identities of two different stored profiles, and  *)
(* get_project_profile answers for both with the profile used on /a.       *)
C35_Witness ==
    /\ "a" \in DOMAIN bindings
    /\ bindings["a"] \in DOMAIN stored
    /\ IdentityOf(git_config[<<"a">>], stored[bindings["a"]])
    /\ \E m \in DOMAIN stored \ {bindings["a"]} :
          /\ IdentityOf(git_config[<<"w", "a">>], stored[m])
          /\ stored[m].name # stored[bindings["a"]].name
    /\ get_project_profile(profiles_toml, project_profiles_toml, <<"w", "a">>)
         = Ok(<<stored[bindings["a"]], "a">>)

(* C36: a step in which delete_profile removes a stored id leaves the      *)
(* mapping as it was; for every path whose project is bound to that id the *)
(* entry is still there, get_project_profile fails with NotFound, and      *)
(* after an add_profile of the same id, with no use_profile,               *)
(* get_project_profile returns the profile added.                          *)
C36_DeleteKeepsBinding ==
    [][\A n \in DOMAIN stored :
         profiles_toml' = delete_profile(profiles_toml, n).file =>
           /\ project_profiles_toml' = project_profiles_toml
           /\ \A path \in Paths :
                (/\ project_of(path).kind = "Ok"
                 /\ project_of(path).value \in DOMAIN bindings
                 /\ bindings[project_of(path).value] = n)
                => /\ <<project_of(path).value, n>> \in project_profiles_toml'
                   /\ get_project_profile(profiles_toml', project_profiles_toml',
                                          path) = Err("NotFound")
                   /\ \A p \in Inputs(n) :
                        get_project_profile(
                            add_profile(profiles_toml', n, p).file,
                            project_profiles_toml', path)
                          = Ok(<<p, project_of(path).value>>)]_vars

(* The profile that /a and /w/a are bound to, and whose identity /a        *)
(* carries, is no longer stored, and another one is.                       *)
C36_Witness ==
    /\ "a" \in DOMAIN bindings
    /\ bindings["a"] \notin DOMAIN stored
    /\ stored # << >>
    /\ git_config[<<"a">>].user_name # None
    /\ \A n \in DOMAIN stored :
          git_config[<<"a">>].user_name # Some(stored[n].name)
    /\ get_project_profile(profiles_toml, project_profiles_toml, <<"w", "a">>)
         = Err("NotFound")

----------------------------------------------------------------------------
(* The upward walk, checked under SpecWalkFair.                            *)

(* C37: the walk of project resolution returns from every starting path.   *)
(* Every iteration returns or leaves cur strictly shorter; the iteration   *)
(* that tests the root returns, with no name; and what the walk returns is *)
(* what resolve_git_repo_name returns.                                     *)
C37_WalkTerminates ==
    /\ <>(walk.pc = "done")
    /\ [][walk.pc = "loop" =>
            \/ walk'.pc = "done"
            \/ walk'.pc = "loop" /\ Len(walk'.cur) < Len(walk.cur)]_vars
    /\ [][walk.pc = "loop" /\ walk.cur = << >> =>
            walk'.pc = "done" /\ walk'.res = Some(Ok(None))]_vars
    /\ [](walk.pc = "done" =>
            walk.res = Some(resolve_git_repo_name(walk.marked, walk.start)))

(* A walk from the file in /w/a/src, with no marker anywhere, that went up *)
(* to the root and returned no name.                                       *)
C37_Witness ==
    /\ walk.pc = "done"
    /\ walk.start = <<"w", "a", "src", "lib.rs">>
    /\ walk.marked = {}
    /\ walk.cur = << >>
    /\ walk.res = Some(Ok(None))

====
